---- MODULE Spec2Model ----
(***************************************************************************)
(* The Jack compiler's VM compilation engine (compiler/engines/vm.py with  *)
(* its base class compiler/engines/_base.py) as a state machine.  The      *)
(* engine is a recursive-descent parser: its call stack is the variable    *)
(* stack, one frame per handler that is waiting for a callee, and the      *)
(* tokenizer's one-token lookahead is the variable token.  The source file *)
(* is not fixed in advance: every advance() of the tokenizer draws the     *)
(* next token from a small set, so the reachable states are the engine's   *)
(* states on every source text within the bounds below.                    *)
(***************************************************************************)
EXTENDS Integers, Sequences, FiniteSets, TLC

\* ------------------------------- bounds --------------------------------
\* The source files explored are of a few shapes, each rich in one thing:
\* declared names (class variables, parameters and locals together), if and
\* while statements, or terms and subroutine calls.
MaxDecls == 3
MaxBranches == 3
MaxTerms == 3
\* calls of the symbol table's methods, when it is driven on its own
MaxTableCalls == 3
\* what a source file of each shape may hold: names declared, subroutines,
\* subroutine kinds other than 'function' (1: any), if/while statements,
\* let/return statements, subroutine calls, terms, and whether the file may
\* end early; and, 0 unless a shape says otherwise, whether expressions may
\* use every binary operator (ops) and string constants (strings), and how
\* many files of the directory come after this one (more), and whether a
\* ';' may stand where a term or the '(' of a call is due (loose)
Shape(decls, subs, kinds, branches, simples, calls, terms, stray) ==
    [decls |-> decls, subs |-> subs, kinds |-> kinds, branches |-> branches,
     simples |-> simples, calls |-> calls, terms |-> terms, stray |-> stray,
     ops |-> 0, strings |-> 0, more |-> 0, loose |-> 0]
\* a file of a directory
NextFile == Shape(0, 1, 0, 1, 0, 0, 1, 0)
Shapes ==
    {Shape(MaxDecls, 1, 0, 0, 1, 0, 1, 0),
     Shape(2, 2, 1, 0, 1, 0, 1, 0),
     Shape(0, 1, 0, MaxBranches, 0, 0, MaxBranches, 0),
     Shape(0, 2, 0, 2, 0, 0, 2, 0),
     Shape(1, 1, 0, 0, 1, 1, 2, 0),
     Shape(0, 1, 0, 0, 0, 2, MaxTerms, 0),
     Shape(1, 1, 0, 1, 0, 1, 1, 1),
     [Shape(0, 1, 0, 0, 1, 0, 3, 0) EXCEPT !.ops = 1],
     [Shape(0, 1, 0, 0, 1, 0, 2, 0) EXCEPT !.strings = 1],
     [NextFile EXCEPT !.more = 1],
     [Shape(1, 1, 0, 0, 1, 1, 1, 0) EXCEPT !.loose = 1]}

\* ------------------------------- tokens --------------------------------
ClassName == "Main"

Kw(s) == [type |-> "keyword", text |-> s]
Sym(s) == [type |-> "symbol", text |-> s]
Id(s) == [type |-> "identifier", text |-> s]
IntTok(s) == [type |-> "integerConstant", text |-> s]
\* a string constant: the token is the text between the quotes
StrTok(s) == [type |-> "stringConstant", text |-> s]
\* the tokenizer at end of input: has_more_tokens is False, token is None
EOF == [type |-> "EOF", text |-> ""]

has_more_tokens(t) == t.type # "EOF"

\* a token after which _char_no may be past the end of the line: _is_comment
\* has moved past a '/' that is the last character of its line, and advance
\* moves on once more
line_ends(t) == t.type = "symbol" /\ t.text = "/"

\* the names a source may use for variables and after a dot
VarNames == {"a", "b"}
SubNames == {"f"}
\* the names a source refers to in statements
RefNames == {"a"}

\* engines/_base.py, module constants
_CLASS_VAR_DEC_KEYWORDS == {"static", "field"}
_SUBROUTINE_DEC_KEYWORDS == {"constructor", "function", "method"}
_VAR_TYPES == {"int", "char", "boolean"}
_SUBROUTINE_TYPES == {"void", "int", "char", "boolean"}
_TERM_TOKENS == {"(", "-", "~", "true", "false", "null", "this"}
_TERM_TYPES == {"integerConstant", "stringConstant", "identifier"}
_BINARY_OPS == {"+", "-", "*", "/", "&", "|", "<", ">", "="}
_KEYWORD_CONSTANTS == {"true", "false", "null", "this"}
_UNARY_OPS == {"-", "~"}
_STATEMENT_KEYWORDS == {"let", "if", "while", "do", "return"}

_is_var_type(t) == t.text \in _VAR_TYPES \/ t.type = "identifier"
_is_subroutine_type(t) == t.text \in _SUBROUTINE_TYPES \/ t.type = "identifier"
_is_term(t) == t.text \in _TERM_TOKENS \/ t.type \in _TERM_TYPES
_is_binary_op(t) == t.text \in _BINARY_OPS
_is_keyword_constant(t) == t.text \in _KEYWORD_CONSTANTS

\* _absorb(mode): the error its assertion raises on token t, "" when it passes
AbsorbError(mode, t) ==
    IF mode \in {":identifier", ":var_dec"}
    THEN IF ~has_more_tokens(t) THEN "EndOfFile"
         ELSE IF t.type # "identifier" THEN "Syntax" ELSE ""
    ELSE IF mode = ":var_type"
    THEN IF ~has_more_tokens(t) THEN "EndOfFile"
         ELSE IF ~_is_var_type(t) THEN "Syntax" ELSE ""
    ELSE IF mode = ":subroutine_type"
    THEN IF ~has_more_tokens(t) THEN "EndOfFile"
         ELSE IF ~_is_subroutine_type(t) THEN "Syntax" ELSE ""
    ELSE IF mode = ":class_name"
    THEN IF t.text # ClassName THEN "Class" ELSE ""
    ELSE IF ~has_more_tokens(t) THEN "EndOfFile"
         ELSE IF t.text # mode THEN "Syntax" ELSE ""

\* ---------------------------- the VM writer ----------------------------
\* one output line per call, as the tuple of its space-separated words
push(segment, index) == <<"push", segment, index>>
pop(segment, index) == <<"pop", segment, index>>
arithmetic(command) == <<command>>
label(l) == <<"label", l>>
goto(l) == <<"goto", l>>
if_goto(l) == <<"if-goto", l>>
call(name, n_args) == <<"call", name, ToString(n_args)>>
function(name, n_vars) == <<"function", name, ToString(n_vars)>>
ret == <<"return">>

\* the string constants a source may use, as the characters 'for c in
\* string' goes through
Strings == {"", "A", "AB"}
chars(s) == CASE s = "" -> <<>>
              [] s = "A" -> <<"A">>
              [] s = "AB" -> <<"A", "B">>
ord(c) == CASE c = "A" -> 65
            [] c = "B" -> 66

\* ".".join([a, b])
Dot(a, b) == a \o "." \o b

\* --------------------------- the symbol table --------------------------
\* a variable descriptor; get_var returns None for an undeclared name
None == [kind |-> "none", type |-> "", index |-> 0]
NoVars == [n \in {} |-> None]

\* SymbolTable(): both tables empty, the four counters at 0
SymbolTable ==
    [class_table |-> NoVars,
     subroutine_table |-> NoVars,
     var_count |-> [static |-> 0, this |-> 0, argument |-> 0, local |-> 0]]

_CLASS_VAR == {"static", "this"}
_SUBROUTINE_VAR == {"argument", "local"}

start_subroutine(tab) ==
    [tab EXCEPT !.subroutine_table = NoVars,
                !.var_count = [@ EXCEPT !.argument = 0, !.local = 0]]

\* define(name, type_, kind) for the four kinds the engine passes
define(tab, name, type_, kind) ==
    LET entry == [kind |-> kind, type |-> type_, index |-> tab.var_count[kind]]
    IN IF kind \in _CLASS_VAR
       THEN [tab EXCEPT !.class_table = (name :> entry) @@ @,
                        !.var_count = [@ EXCEPT ![kind] = @ + 1]]
       ELSE [tab EXCEPT !.subroutine_table = (name :> entry) @@ @,
                        !.var_count = [@ EXCEPT ![kind] = @ + 1]]

get_var(tab, name) ==
    IF name \in DOMAIN tab.subroutine_table THEN tab.subroutine_table[name]
    ELSE IF name \in DOMAIN tab.class_table THEN tab.class_table[name]
    ELSE None

\* ------------------------------- state ---------------------------------
VARIABLES
    status,        \* "init", "running", "ok" (run returned True), "error"
                   \* (run returned False), "crashed" (run did not return)
    files,         \* the file objects of the tokenizer and the writer, and
                   \* the .vm file on disk
    err,           \* the exception type that ended the run, "" if none
    err_at,        \* the token whose place the JackError reports, the
                   \* tokenizer's last place if it had no token left
    token,         \* the tokenizer's current token
    stack,         \* the engine's call stack, innermost handler last
    out,           \* the lines written to the .vm file so far
    symboltable,   \* self._symboltable
    branch_count,  \* self._branch_count
    log,           \* history: what the engine has read, with Len(out) then
    left,          \* how much the rest of the source may still hold
    tokenizer,     \* a JackTokenizer of comptools, when it is driven alone
    source,        \* the lines of the file that tokenizer reads
    xmlwriter      \* an XMLWriter, when it is driven alone

\* the objects that are driven on their own, each by its own specification
apart == <<tokenizer, source, xmlwriter>>
\* such an object while another specification runs
Parked == "-"

vars == <<status, files, err, err_at, token, stack, out, symboltable, branch_count, log, left,
          tokenizer, source, xmlwriter>>

\* a frame: the handler's position and its local variables
Frame(pc) ==
    [pc |-> pc, k |-> 0, n |-> 0, s |-> "", t |-> "", v |-> None, g |-> 0]

Top == stack[Len(stack)]
Rest == SubSeq(stack, 1, Len(stack) - 1)
At(pc) == status = "running" /\ Len(stack) > 0 /\ Top.pc = pc
\* the caller's stack with the top frame changed / replaced by several
SetTop(f) == Rest \o <<f>>

\* a history entry; at is the number of lines written before it
EventAt(e, id, kind, name, type_, at) ==
    [e |-> e, id |-> id, kind |-> kind, name |-> name, type |-> type_, at |-> at]
Event(e, id, kind, name, type_) == EventAt(e, id, kind, name, type_, Len(out))

\* the tokens a source may hold at a position: those in S, or in some
\* sources the end of the file
Draw(S) == S \cup (IF left.stray >= 1 THEN {EOF} ELSE {})


TypeTokens == {Id("Array")}
VarTokens == {Id(n) : n \in VarNames}
RefTokens == {Id(n) : n \in RefNames}
SubTokens == {Id(n) : n \in SubNames}
\* where a term may start
TermStart ==
    (IF left.terms >= 1 THEN {IntTok("7")} \cup {Id(n) : n \in RefNames} ELSE {})
    \cup (IF left.terms >= 1 /\ left.calls >= 1 THEN {Id(n) : n \in SubNames} ELSE {})
    \cup (IF left.terms >= 2 THEN {Sym("("), Sym("-")} ELSE {})
    \cup (IF left.terms >= 1 /\ left.strings >= 1
          THEN {StrTok(x) : x \in Strings} ELSE {})
    \cup (IF left.loose >= 1 THEN {Sym(";")} ELSE {})
\* the innermost frame of stk that is not inside an expression
RECURSIVE Context(_)
Context(stk) ==
    IF stk = <<>> THEN ""
    ELSE IF stk[Len(stk)].pc \in {"expression", "term", "term_unary", "subroutine_call"}
    THEN Context(SubSeq(stk, 1, Len(stk) - 1))
    ELSE stk[Len(stk)].pc
\* what ends the expression a term is part of
Closers(stk, terms) ==
    LET c == Context(stk) IN
    IF c \in {"let_value", "return", "do"} THEN {Sym(";")}
    ELSE IF c \in {"let_index", "term_index"} THEN {Sym("]")}
    ELSE IF c \in {"expression_list", "expression_list_more"}
    THEN (IF terms >= 1 THEN {Sym(",")} ELSE {}) \cup {Sym(")")}
    ELSE {Sym(")")}
\* the binary operators a source may use
Operators == IF left.ops >= 1 THEN {Sym(o) : o \in _BINARY_OPS} ELSE {Sym("+")}
\* after a term that leaves the handlers stk on the stack, when the source
\* may hold that many more terms
FollowIn(stk, terms) ==
    (IF terms >= 1 /\ Context(stk) # "do" THEN Operators ELSE {})
    \cup Closers(stk, terms)
\* after the last token of a term that began earlier
Follow == FollowIn(Rest, left.terms)
\* after a term of one token
LeafFollow == FollowIn(Rest, left.terms - 1)
StatementTokens ==
    (IF left.simples >= 1 THEN {Kw("return")} ELSE {})
    \cup (IF left.simples >= 1 /\ left.terms >= 1 THEN {Kw("let")} ELSE {})
    \cup (IF left.calls >= 1 THEN {Kw("do")} ELSE {})
    \cup (IF left.branches >= 1 /\ left.terms >= 1
         THEN {Kw("if"), Kw("while")} ELSE {})
SubroutineStart ==
    IF left.subs = 0 THEN {}
    ELSE IF left.kinds >= 1 THEN {Kw(s) : s \in _SUBROUTINE_DEC_KEYWORDS}
    ELSE {Kw("function")}
\* after 'class Main {' or a classVarDec
ClassVarsStart ==
    (IF left.decls >= 1 THEN {Kw(s) : s \in _CLASS_VAR_DEC_KEYWORDS} ELSE {})
    \cup SubroutineStart
    \cup {Sym("}")}
\* after a subroutine
ClassSubsStart ==
    SubroutineStart
    \cup {Sym("}")}
\* after a declared name
MoreNames == (IF left.decls >= 2 THEN {Sym(",")} ELSE {}) \cup {Sym(";")}

\* the files of a run: is the .jack file open, is the .vm file open, is
\* there a .vm file
Files(reader, writer, output) ==
    [reader |-> reader, writer |-> writer, output |-> output]

Init ==
    /\ status = "init"
    /\ files = Files(FALSE, FALSE, FALSE)
    /\ err_at = EOF
    /\ err = ""
    /\ token = EOF
    /\ stack = <<>>
    /\ out = <<>>
    /\ symboltable = SymbolTable
    /\ branch_count = 0
    /\ log = <<>>
    /\ left \in Shapes
    /\ tokenizer = Parked
    /\ source = Parked
    /\ xmlwriter = Parked

\* an error raised with the position of the token the engine was at
error_position_current(state, current) == current

\* _raise_error: the position of the saved state if there is one, of the
\* tokenizer's current token otherwise
error_position(state, current) == IF state = None THEN current ELSE state

\* raise JackError: run() prints it and removes the output file
FailAt(kind, at, current, count) ==
    /\ status' = "error"
    /\ files' = Files(FALSE, FALSE, FALSE) /\ UNCHANGED apart
    /\ err' = kind
    /\ err_at' = at
    /\ token' = current
    /\ stack' = <<>>
    /\ out' = <<>>
    /\ log' = <<>>
    /\ branch_count' = count
    /\ symboltable' = SymbolTable
    /\ left' = [Shape(0, 0, 0, 0, 0, 0, 0, 0) EXCEPT !.more = left.more]
\* _raise_error(err, info)
Fail(kind, current) ==
    FailAt(kind, error_position(None, current), current, branch_count)
\* _raise_error(err, info, state)
FailState(kind, state, current) ==
    FailAt(kind, error_position(state, current), current, branch_count)

\* an exception that is not a JackError leaves run(): the with statement
\* closes both files, and nothing removes the output: what was written
\* stays
Escape(kind) ==
    /\ status' = "crashed"
    /\ files' = Files(FALSE, FALSE, TRUE) /\ UNCHANGED apart
    /\ err' = kind
    /\ err_at' = EOF
    /\ token' = EOF
    /\ stack' = <<>>
    /\ symboltable' = SymbolTable
    /\ left' = Shape(0, 0, 0, 0, 0, 0, 0, 0)
    /\ UNCHANGED branch_count

\* run(): load the class, advance to the first token, compile the class
Run ==
    /\ status = "init"
    /\ \E t \in Draw({Kw("class")}) :
         /\ token' = t
         /\ IF has_more_tokens(t)
            THEN /\ status' = "running"
                 /\ files' = Files(TRUE, TRUE, TRUE) /\ UNCHANGED apart
                 /\ stack' = <<Frame("class")>>
            ELSE /\ status' = "ok"
                 /\ files' = Files(FALSE, FALSE, TRUE) /\ UNCHANGED apart
                 /\ stack' = <<>>
    \* history: the counter this file starts with
    /\ log' = <<Event("run", branch_count, "", "", "")>>
    /\ UNCHANGED <<err, err_at, out, symboltable, branch_count, left>>

\* __main__, a directory: the same engine runs the next file, after an error
\* when the user answers y
RunNext ==
    /\ status \in {"ok", "error"}
    /\ left.more >= 1
    /\ status' = "init"
    /\ files' = Files(FALSE, FALSE, FALSE) /\ UNCHANGED apart
    /\ err' = ""
    /\ err_at' = EOF
    /\ token' = EOF
    /\ stack' = <<>>
    /\ out' = <<>>
    /\ log' = <<>>
    /\ left' = [NextFile EXCEPT !.more = left.more - 1]
    /\ UNCHANGED <<symboltable, branch_count>>

\* _compile_class up to the declarations: 'class' className '{'
CompileClass ==
    /\ At("class")
    /\ IF AbsorbError("class", token) # "" THEN Fail(AbsorbError("class", token), token)
       ELSE \E t1 \in Draw({Id(ClassName)}) :
         IF AbsorbError(":class_name", t1) # ""
         THEN Fail(AbsorbError(":class_name", t1), t1)
         ELSE \E t2 \in Draw({Sym("{")}) :
           IF AbsorbError("{", t2) # "" THEN Fail(AbsorbError("{", t2), t2)
           ELSE \E t3 \in Draw(ClassVarsStart) :
             /\ token' = t3
             /\ symboltable' = SymbolTable
             /\ stack' = SetTop([Top EXCEPT !.pc = "class_vars"])
             /\ UNCHANGED <<apart, status, files, err, err_at, out, branch_count, log, left>>

\* _compile_class_var_dec: ('static' | 'field') type varName
CompileClassVarDec ==
    /\ At("class_vars")
    /\ token.text \in _CLASS_VAR_DEC_KEYWORDS
    /\ LET kind == IF token.text = "field" THEN "this" ELSE token.text
       IN \E t1 \in Draw(TypeTokens) :
         IF AbsorbError(":var_type", t1) # "" THEN Fail(AbsorbError(":var_type", t1), t1)
         ELSE \E t2 \in Draw(VarTokens) :
           IF AbsorbError(":var_dec", t2) # "" THEN Fail(AbsorbError(":var_dec", t2), t2)
           ELSE \E t3 \in Draw(MoreNames) :
             /\ token' = t3
             /\ symboltable' = define(symboltable, t2.text, t1.text, kind)
             \* v.kind keeps the source keyword for the history
             /\ stack' = SetTop([Top EXCEPT !.pc = "class_var_dec", !.s = kind,
                                            !.t = t1.text,
                                            !.v = [None EXCEPT !.kind = token.text]])
             /\ log' = Append(log, Event("classvar", 0, token.text, t2.text, t1.text))
             /\ left' = [left EXCEPT !.decls = @ - 1]
             /\ UNCHANGED <<apart, status, files, err, err_at, out, branch_count>>

\* _compile_class_var_dec: (',' varName)* ';'
CompileClassVarDecMore ==
    /\ At("class_var_dec")
    /\ IF token.text = ","
       THEN \E t1 \in Draw(VarTokens) :
         IF AbsorbError(":var_dec", t1) # "" THEN Fail(AbsorbError(":var_dec", t1), t1)
         ELSE \E t2 \in Draw(MoreNames) :
           /\ token' = t2
           /\ symboltable' = define(symboltable, t1.text, Top.t, Top.s)
           /\ log' = Append(log, Event("classvar", 0, Top.v.kind, t1.text, Top.t))
           /\ left' = [left EXCEPT !.decls = @ - 1]
           /\ UNCHANGED <<apart, status, files, err, err_at, stack, out, branch_count>>
       ELSE IF AbsorbError(";", token) # "" THEN Fail(AbsorbError(";", token), token)
       ELSE \E t1 \in Draw(ClassVarsStart) :
           /\ token' = t1
           /\ stack' = SetTop([Top EXCEPT !.pc = "class_vars", !.s = "", !.t = "", !.v = None])
           /\ UNCHANGED <<apart, status, files, err, err_at, out, symboltable, branch_count, log, left>>

\* _compile_class after the subroutines: '}'
CompileClassEnd ==
    /\ At("class_vars") \/ At("class_subs")
    /\ ~(At("class_vars") /\ token.text \in _CLASS_VAR_DEC_KEYWORDS)
    /\ token.text \notin _SUBROUTINE_DEC_KEYWORDS
    /\ IF AbsorbError("}", token) # "" THEN Fail(AbsorbError("}", token), token)
       ELSE \E t1 \in {EOF} \cup (IF left.stray >= 1 THEN {Kw("class")} ELSE {}) :
              /\ token' = t1
              /\ stack' = Rest
              /\ UNCHANGED <<apart, status, files, err, err_at, out, symboltable, branch_count, log, left>>

\* a run that does not look past the class
code_outside_class_never(t) == FALSE

\* run() after _compile_class: is there a token after the class
code_outside_class(t) == has_more_tokens(t)

\* run() after _compile_class: tokens after the class are an error
RunEnd ==
    /\ status = "running"
    /\ stack = <<>>
    /\ IF code_outside_class(token) THEN Fail("Syntax", token)
       ELSE /\ status' = "ok"
            /\ files' = Files(FALSE, FALSE, TRUE) /\ UNCHANGED apart
            /\ UNCHANGED <<err, err_at, token, stack, out, symboltable, branch_count,
                           log, left>>

\* --------------------------- a subroutine ------------------------------
\* after '(' or a parameter
ParamStart == (IF left.decls >= 1 THEN TypeTokens ELSE {}) \cup {Sym(")")}
MoreParams == (IF left.decls >= 2 THEN {Sym(",")} ELSE {}) \cup {Sym(")")}
\* where a statement may start, or the block may end
BodyTokens == StatementTokens \cup {Sym("}")}
VarDecStart == (IF left.decls >= 1 THEN {Kw("var")} ELSE {}) \cup BodyTokens

\* a subroutine header that declares no receiver
this_argument_never(tab, kind) == tab

\* a method has the object it is called on as its first argument
this_argument(tab, kind) ==
    IF kind = "method" THEN define(tab, "this", ClassName, "argument") ELSE tab

\* _compile_subroutine up to the parameter list
CompileSubroutine ==
    /\ At("class_vars") \/ At("class_subs")
    /\ ~(At("class_vars") /\ token.text \in _CLASS_VAR_DEC_KEYWORDS)
    /\ token.text \in _SUBROUTINE_DEC_KEYWORDS
    /\ LET kind == token.text
           tab1 == start_subroutine(symboltable)
           tab2 == this_argument(tab1, kind)
       IN \E t1 \in Draw({Kw("void")}) :
         IF AbsorbError(":subroutine_type", t1) # ""
         THEN Fail(AbsorbError(":subroutine_type", t1), t1)
         ELSE \E t2 \in Draw(SubTokens) :
           IF AbsorbError(":identifier", t2) # ""
           THEN Fail(AbsorbError(":identifier", t2), t2)
           ELSE \E t3 \in Draw({Sym("(")}) :
             IF AbsorbError("(", t3) # "" THEN Fail(AbsorbError("(", t3), t3)
             ELSE \E t4 \in Draw(ParamStart) :
               /\ token' = t4
               /\ symboltable' = tab2
               /\ stack' = SetTop([Top EXCEPT !.pc = "class_subs"])
                           \o <<[Frame("parameter_list") EXCEPT
                                   !.s = kind, !.t = Dot(ClassName, t2.text)]>>
               /\ log' = Append(log, Event("sub", 0, kind, t2.text, ""))
               /\ left' = [left EXCEPT !.subs = @ - 1]
               /\ UNCHANGED <<apart, status, files, err, err_at, out, branch_count>>

\* _compile_subroutine between the parameter list and the varDecs: ')' '{'
SubroutineBodyOpen ==
    IF AbsorbError(")", token) # "" THEN Fail(AbsorbError(")", token), token)
    ELSE \E t1 \in Draw({Sym("{")}) :
      IF AbsorbError("{", t1) # "" THEN Fail(AbsorbError("{", t1), t1)
      ELSE \E t2 \in Draw(VarDecStart) :
        /\ token' = t2
        /\ stack' = SetTop([Top EXCEPT !.pc = "var_decs"])
        /\ UNCHANGED <<apart, status, files, err, err_at, out, symboltable, branch_count, log, left>>

\* _compile_parameter_list: (type varName)?
CompileParameterList ==
    /\ At("parameter_list")
    /\ IF _is_var_type(token)
       THEN \E t1 \in Draw(VarTokens) :
         IF AbsorbError(":var_dec", t1) # "" THEN Fail(AbsorbError(":var_dec", t1), t1)
         ELSE \E t2 \in Draw(MoreParams) :
           /\ token' = t2
           /\ symboltable' = define(symboltable, t1.text, token.text, "argument")
           /\ stack' = SetTop([Top EXCEPT !.pc = "parameter_list_more"])
           /\ log' = Append(log, Event("param", 0, "argument", t1.text, token.text))
           /\ left' = [left EXCEPT !.decls = @ - 1]
           /\ UNCHANGED <<apart, status, files, err, err_at, out, branch_count>>
       ELSE SubroutineBodyOpen

\* _compile_parameter_list: (',' type varName)*
CompileParameterListMore ==
    /\ At("parameter_list_more")
    /\ IF token.text = ","
       THEN \E t1 \in Draw(TypeTokens) :
         IF AbsorbError(":var_type", t1) # "" THEN Fail(AbsorbError(":var_type", t1), t1)
         ELSE \E t2 \in Draw(VarTokens) :
           IF AbsorbError(":var_dec", t2) # "" THEN Fail(AbsorbError(":var_dec", t2), t2)
           ELSE \E t3 \in Draw(MoreParams) :
             /\ token' = t3
             /\ symboltable' = define(symboltable, t2.text, t1.text, "argument")
             /\ log' = Append(log, Event("param", 0, "argument", t2.text, t1.text))
             /\ left' = [left EXCEPT !.decls = @ - 1]
             /\ UNCHANGED <<apart, status, files, err, err_at, stack, out, branch_count>>
       ELSE SubroutineBodyOpen

\* _compile_var_dec: 'var' type varName
CompileVarDec ==
    /\ At("var_decs")
    /\ token.text = "var"
    /\ \E t1 \in Draw(TypeTokens) :
         IF AbsorbError(":var_type", t1) # "" THEN Fail(AbsorbError(":var_type", t1), t1)
         ELSE \E t2 \in Draw(VarTokens) :
           IF AbsorbError(":var_dec", t2) # "" THEN Fail(AbsorbError(":var_dec", t2), t2)
           ELSE \E t3 \in Draw(MoreNames) :
             /\ token' = t3
             /\ symboltable' = define(symboltable, t2.text, t1.text, "local")
             /\ stack' = SetTop([Top EXCEPT !.pc = "var_dec",
                                            !.v = [None EXCEPT !.type = t1.text]])
             /\ log' = Append(log, Event("local", 0, "local", t2.text, t1.text))
             /\ left' = [left EXCEPT !.decls = @ - 1]
             /\ UNCHANGED <<apart, status, files, err, err_at, out, branch_count>>

\* _compile_var_dec: (',' varName)* ';'
CompileVarDecMore ==
    /\ At("var_dec")
    /\ IF token.text = ","
       THEN \E t1 \in Draw(VarTokens) :
         IF AbsorbError(":var_dec", t1) # "" THEN Fail(AbsorbError(":var_dec", t1), t1)
         ELSE \E t2 \in Draw(MoreNames) :
           /\ token' = t2
           /\ symboltable' = define(symboltable, t1.text, Top.v.type, "local")
           /\ log' = Append(log, Event("local", 0, "local", t1.text, Top.v.type))
           /\ left' = [left EXCEPT !.decls = @ - 1]
           /\ UNCHANGED <<apart, status, files, err, err_at, stack, out, branch_count>>
       ELSE IF AbsorbError(";", token) # "" THEN Fail(AbsorbError(";", token), token)
       ELSE \E t1 \in Draw(VarDecStart) :
           /\ token' = t1
           /\ stack' = SetTop([Top EXCEPT !.pc = "var_decs", !.v = None])
           /\ UNCHANGED <<apart, status, files, err, err_at, out, symboltable, branch_count, log, left>>

\* a function command that counts the arguments where the locals belong
function_directive_arguments(full_name) ==
    function(full_name, symboltable.var_count["argument"])

\* the function command, written once the local variables are counted
function_directive(full_name) ==
    function(full_name, symboltable.var_count["local"])

\* a prologue that allocates one word per static variable
prologue_statics(kind) ==
    IF kind = "constructor"
    THEN <<push("constant", ToString(symboltable.var_count["static"])),
           call("Memory.alloc", 1),
           pop("pointer", "0")>>
    ELSE IF kind = "method"
    THEN <<push("argument", "0"), pop("pointer", "0")>>
    ELSE <<>>

\* a prologue that aligns 'this' in every subroutine that is no constructor
prologue_always(kind) ==
    IF kind = "constructor"
    THEN <<push("constant", ToString(symboltable.var_count["this"])),
           call("Memory.alloc", 1),
           pop("pointer", "0")>>
    ELSE <<push("argument", "0"), pop("pointer", "0")>>

\* what _compile_subroutine writes after the function command
prologue(kind) ==
    IF kind = "constructor"
    THEN <<push("constant", ToString(symboltable.var_count["this"])),
           call("Memory.alloc", 1),
           pop("pointer", "0")>>
    ELSE IF kind = "method"
    THEN <<push("argument", "0"), pop("pointer", "0")>>
    ELSE <<>>

\* _compile_subroutine after the varDecs: the function command, the
\* prologue, then the statements
CompileSubroutineBody ==
    /\ At("var_decs")
    /\ token.text # "var"
    /\ out' = out \o <<function_directive(Top.t)>> \o prologue(Top.s)
    /\ stack' = SetTop([Top EXCEPT !.pc = "subroutine_end"]) \o <<Frame("statements")>>
    /\ log' = Append(log, Event("body", 0, Top.s, "", ""))
    /\ UNCHANGED <<apart, status, files, err, err_at, token, symboltable, branch_count, left>>

\* _compile_subroutine after the statements: '}'
CompileSubroutineEnd ==
    /\ At("subroutine_end")
    /\ IF AbsorbError("}", token) # "" THEN Fail(AbsorbError("}", token), token)
       ELSE \E t1 \in Draw(ClassSubsStart) :
         /\ token' = t1
         /\ stack' = Rest
         /\ UNCHANGED <<apart, status, files, err, err_at, out, symboltable, branch_count, log, left>>

\* --------------------------- statements --------------------------------
\* a call of _compile_expression: it starts with _compile_term
Expression == <<Frame("expression"), Frame("term")>>

\* _compile_statements: no statement keyword ends the loop
CompileStatementsEnd ==
    /\ At("statements")
    /\ token.text \notin _STATEMENT_KEYWORDS
    /\ stack' = Rest
    /\ UNCHANGED <<apart, status, files, err, err_at, token, out, symboltable, branch_count, log, left>>

\* a label that leaves the counter out
else_label_shared(k) == "ELSE_BRANCH"

else_label(k) == "ELSE_BRANCH." \o ToString(k)
end_label(k) == "END_BRANCH." \o ToString(k)
loop_label(k) == "LOOP_BRANCH." \o ToString(k)
break_label(k) == "BREAK_BRANCH." \o ToString(k)

\* the two lines between the branches in the other order
if_middle_swapped(k) == <<label(else_label(k)), goto(end_label(k))>>

\* what _compile_if writes after the condition, after the then-branch and
\* at the end
if_test(k) == <<arithmetic("not"), if_goto(else_label(k))>>
if_middle(k) == <<goto(end_label(k)), label(else_label(k))>>
if_close(k) == <<label(end_label(k))>>

\* _compile_if: 'if' '(' and the call of _compile_expression
CompileIf ==
    /\ At("statements")
    /\ token.text = "if"
    /\ \E t1 \in Draw({Sym("(")}) :
         IF AbsorbError("(", t1) # ""
         THEN FailAt(AbsorbError("(", t1), t1, t1, branch_count + 1)
         ELSE \E t2 \in Draw(TermStart) :
           /\ token' = t2
           /\ branch_count' = branch_count + 1
           /\ stack' = stack \o <<[Frame("if_condition") EXCEPT
                                      !.k = branch_count + 1, !.g = Len(log) + 1]>>
                             \o Expression
           /\ log' = Append(log, Event("stmt", 0, "if", "", ""))
           /\ left' = [left EXCEPT !.branches = @ - 1]
           /\ UNCHANGED <<apart, status, files, err, err_at, out, symboltable>>

\* _compile_if: ')' not, if-goto, '{' and the then-branch
CompileIfThen ==
    /\ At("if_condition")
    /\ IF AbsorbError(")", token) # "" THEN Fail(AbsorbError(")", token), token)
       ELSE \E t1 \in Draw({Sym("{")}) :
         IF AbsorbError("{", t1) # "" THEN Fail(AbsorbError("{", t1), t1)
         ELSE \E t2 \in Draw(BodyTokens) :
           /\ token' = t2
           /\ out' = out \o if_test(Top.k)
           /\ stack' = SetTop([Top EXCEPT !.pc = "if_then"]) \o <<Frame("statements")>>
           /\ log' = Append(log, Event("if_cond", Top.g, "", "", ""))
           /\ UNCHANGED <<apart, status, files, err, err_at, symboltable, branch_count, left>>

\* _compile_if: '}' goto, label, and the else-branch if there is one
CompileIfElse ==
    /\ At("if_then")
    /\ IF AbsorbError("}", token) # "" THEN Fail(AbsorbError("}", token), token)
       ELSE \E t1 \in Draw({Kw("else")} \cup BodyTokens) :
         IF t1.text = "else"
         THEN \E t2 \in Draw({Sym("{")}) :
           IF AbsorbError("{", t2) # "" THEN Fail(AbsorbError("{", t2), t2)
           ELSE \E t3 \in Draw(BodyTokens) :
             /\ token' = t3
             /\ out' = out \o if_middle(Top.k)
             /\ stack' = SetTop([Top EXCEPT !.pc = "if_else"]) \o <<Frame("statements")>>
             /\ log' = log \o <<Event("if_then", Top.g, "", "", ""),
                                EventAt("if_else", Top.g, "", "", "", Len(out) + 2)>>
             /\ UNCHANGED <<apart, status, files, err, err_at, symboltable, branch_count, left>>
         ELSE /\ token' = t1
              /\ out' = out \o if_middle(Top.k) \o if_close(Top.k)
              /\ stack' = Rest
              /\ log' = log \o <<Event("if_then", Top.g, "", "", ""),
                                 EventAt("if_end", Top.g, "", "", "", Len(out) + 2)>>
              /\ UNCHANGED <<apart, status, files, err, err_at, symboltable, branch_count, left>>

\* _compile_if: the '}' of the else-branch and the end label
CompileIfEnd ==
    /\ At("if_else")
    /\ IF AbsorbError("}", token) # "" THEN Fail(AbsorbError("}", token), token)
       ELSE \E t1 \in Draw(BodyTokens) :
         /\ token' = t1
         /\ out' = out \o if_close(Top.k)
         /\ stack' = Rest
         /\ log' = Append(log, Event("if_end", Top.g, "", "", ""))
         /\ UNCHANGED <<apart, status, files, err, err_at, symboltable, branch_count, left>>

\* a loop end that jumps out of the loop
while_close_break(k) == <<goto(break_label(k)), label(break_label(k))>>

\* what _compile_while writes before the condition, after it and at the end
while_open(k) == <<label(loop_label(k))>>
while_test(k) == <<arithmetic("not"), if_goto(break_label(k))>>
while_close(k) == <<goto(loop_label(k)), label(break_label(k))>>

\* _compile_while: 'while', the loop label, '(' and the condition
CompileWhile ==
    /\ At("statements")
    /\ token.text = "while"
    /\ \E t1 \in Draw({Sym("(")}) :
         IF AbsorbError("(", t1) # ""
         THEN FailAt(AbsorbError("(", t1), t1, t1, branch_count + 1)
         ELSE \E t2 \in Draw(TermStart) :
           /\ token' = t2
           /\ branch_count' = branch_count + 1
           /\ out' = out \o while_open(branch_count + 1)
           /\ stack' = stack \o <<[Frame("while_condition") EXCEPT
                                      !.k = branch_count + 1, !.g = Len(log) + 1]>>
                             \o Expression
           /\ log' = Append(log, Event("stmt", 0, "while", "", ""))
           /\ left' = [left EXCEPT !.branches = @ - 1]
           /\ UNCHANGED <<apart, status, files, err, err_at, symboltable>>

\* _compile_while: ')' not, if-goto, '{' and the body
CompileWhileBody ==
    /\ At("while_condition")
    /\ IF AbsorbError(")", token) # "" THEN Fail(AbsorbError(")", token), token)
       ELSE \E t1 \in Draw({Sym("{")}) :
         IF AbsorbError("{", t1) # "" THEN Fail(AbsorbError("{", t1), t1)
         ELSE \E t2 \in Draw(BodyTokens) :
           /\ token' = t2
           /\ out' = out \o while_test(Top.k)
           /\ stack' = SetTop([Top EXCEPT !.pc = "while_body"]) \o <<Frame("statements")>>
           /\ log' = Append(log, Event("while_cond", Top.g, "", "", ""))
           /\ UNCHANGED <<apart, status, files, err, err_at, symboltable, branch_count, left>>

\* _compile_while: '}' goto and the break label
CompileWhileEnd ==
    /\ At("while_body")
    /\ IF AbsorbError("}", token) # "" THEN Fail(AbsorbError("}", token), token)
       ELSE \E t1 \in Draw(BodyTokens) :
         /\ token' = t1
         /\ out' = out \o while_close(Top.k)
         /\ stack' = Rest
         /\ log' = Append(log, Event("while_end", Top.g, "", "", ""))
         /\ UNCHANGED <<apart, status, files, err, err_at, symboltable, branch_count, left>>

\* _compile_return
CompileReturn ==
    /\ At("statements")
    /\ token.text = "return"
    /\ \E t1 \in Draw(TermStart \cup {Sym(";")}) :
         IF t1.text # ";"
         THEN /\ token' = t1
              /\ stack' = stack \o <<Frame("return")>> \o Expression
              /\ log' = Append(log, Event("stmt", 0, "return", "", ""))
              /\ left' = [left EXCEPT !.simples = @ - 1]
              /\ UNCHANGED <<apart, status, files, err, err_at, out, symboltable, branch_count>>
         ELSE \E t2 \in Draw(BodyTokens) :
              /\ token' = t2
              /\ out' = out \o <<push("constant", "0"), ret>>
              /\ log' = Append(log, Event("stmt", 0, "return", "", ""))
              /\ left' = [left EXCEPT !.simples = @ - 1]
              /\ UNCHANGED <<apart, status, files, err, err_at, stack, symboltable, branch_count>>

\* _compile_return after the expression: return, ';'
CompileReturnEnd ==
    /\ At("return")
    /\ IF AbsorbError(";", token) # "" THEN Fail(AbsorbError(";", token), token)
       ELSE \E t1 \in Draw(BodyTokens) :
         /\ token' = t1
         /\ out' = Append(out, ret)
         /\ stack' = Rest
         /\ UNCHANGED <<apart, status, files, err, err_at, symboltable, branch_count, log, left>>

\* after the variable of a let
LetFollow == (IF left.terms >= 2 THEN {Sym("[")} ELSE {}) \cup {Sym("=")}

\* _compile_let up to the first expression
CompileLet ==
    /\ At("statements")
    /\ token.text = "let"
    /\ \E t1 \in Draw(RefTokens) :
         LET var == get_var(symboltable, t1.text) IN
         IF var = None THEN Fail("Variable", t1)
         ELSE IF AbsorbError(":identifier", t1) # ""
         THEN Fail(AbsorbError(":identifier", t1), t1)
         ELSE \E t2 \in Draw(LetFollow) :
           IF t2.text = "["
           THEN IF var.type # "Array" THEN FailState("Array", t1, t2)
                ELSE \E t3 \in Draw(TermStart) :
                  /\ token' = t3
                  /\ out' = Append(out, push(var.kind, ToString(var.index)))
                  /\ stack' = stack \o <<[Frame("let_index") EXCEPT
                                            !.v = var, !.t = t1.text, !.g = Len(log) + 1]>>
                                    \o Expression
                  /\ log' = log \o <<Event("stmt", 0, "let", t1.text, "array"),
                                     Event("ref", Len(log) + 1, "push", t1.text, "")>>
                  /\ left' = [left EXCEPT !.simples = @ - 1]
                  /\ UNCHANGED <<apart, status, files, err, err_at, symboltable, branch_count>>
           ELSE IF AbsorbError("=", t2) # "" THEN Fail(AbsorbError("=", t2), t2)
                ELSE \E t3 \in Draw(TermStart) :
                  /\ token' = t3
                  /\ stack' = stack \o <<[Frame("let_value") EXCEPT
                                            !.v = var, !.t = t1.text, !.g = Len(log) + 1]>>
                                    \o Expression
                  /\ log' = Append(log, Event("stmt", 0, "let", t1.text, ""))
                  /\ left' = [left EXCEPT !.simples = @ - 1]
                  /\ UNCHANGED <<apart, status, files, err, err_at, out, symboltable, branch_count>>

\* _compile_let after the index expression: add, ']' '=' and the value
CompileLetIndexEnd ==
    /\ At("let_index")
    /\ IF AbsorbError("]", token) # "" THEN Fail(AbsorbError("]", token), token)
       ELSE \E t1 \in Draw({Sym("=")}) :
         IF AbsorbError("=", t1) # "" THEN Fail(AbsorbError("=", t1), t1)
         ELSE \E t2 \in Draw(TermStart) :
           /\ token' = t2
           /\ out' = Append(out, arithmetic("add"))
           /\ stack' = SetTop([Top EXCEPT !.pc = "let_value", !.n = 1]) \o Expression
           /\ log' = Append(log, Event("let_index", Top.g, "", "", ""))
           /\ UNCHANGED <<apart, status, files, err, err_at, symboltable, branch_count, left>>

\* a store that sets pointer 1 while the value is still on the stack
let_store_unstashed(var, n) ==
    IF n = 1
    THEN <<pop("pointer", "1"), pop("temp", "0"), push("temp", "0"), pop("that", "0")>>
    ELSE <<pop(var.kind, ToString(var.index))>>

\* a store that takes every variable for the first of its kind
let_store_first(var, n) ==
    IF n = 1
    THEN <<pop("temp", "0"), pop("pointer", "1"), push("temp", "0"), pop("that", "0")>>
    ELSE <<pop(var.kind, "0")>>

\* what _compile_let writes after the value: n is 1 for an array element
let_store(var, n) ==
    IF n = 1
    THEN <<pop("temp", "0"), pop("pointer", "1"), push("temp", "0"), pop("that", "0")>>
    ELSE <<pop(var.kind, ToString(var.index))>>

\* _compile_let after the value: the pops, ';'
CompileLetEnd ==
    /\ At("let_value")
    /\ IF AbsorbError(";", token) # "" THEN Fail(AbsorbError(";", token), token)
       ELSE \E t1 \in Draw(BodyTokens) :
         /\ token' = t1
         /\ out' = out \o let_store(Top.v, Top.n)
         /\ stack' = Rest
         /\ log' = Append(log, Event(IF Top.n = 1 THEN "let_end" ELSE "ref",
                                     Top.g, "pop", Top.t, ""))
         /\ UNCHANGED <<apart, status, files, err, err_at, symboltable, branch_count, left>>

\* _compile_do up to the call
CompileDo ==
    /\ At("statements")
    /\ token.text = "do"
    /\ \E t1 \in Draw(RefTokens \cup SubTokens) :
         IF AbsorbError(":identifier", t1) # "" THEN Fail(AbsorbError(":identifier", t1), t1)
         ELSE \E t2 \in Draw({Sym("."), Sym("(")}) :
           /\ token' = t2
           /\ stack' = stack \o <<Frame("do"),
                                  [Frame("subroutine_call") EXCEPT !.s = "do", !.t = t1.text]>>
           /\ log' = Append(log, Event("stmt", 0, "do", "", ""))
           /\ left' = [left EXCEPT !.calls = @ - 1]
           /\ UNCHANGED <<apart, status, files, err, err_at, out, symboltable, branch_count>>

\* _compile_do after the call: pop temp 0, ';'
CompileDoEnd ==
    /\ At("do")
    /\ IF AbsorbError(";", token) # "" THEN Fail(AbsorbError(";", token), token)
       ELSE \E t1 \in Draw(BodyTokens) :
         /\ token' = t1
         /\ out' = Append(out, pop("temp", "0"))
         /\ stack' = Rest
         /\ UNCHANGED <<apart, status, files, err, err_at, symboltable, branch_count, log, left>>

\* --------------------------- expressions -------------------------------
_BIN_OP_MAP ==
    [op \in {"+", "-", "&", "|", "<", ">", "="} |->
       CASE op = "+" -> "add" [] op = "-" -> "sub" [] op = "&" -> "and"
         [] op = "|" -> "or" [] op = "<" -> "lt" [] op = ">" -> "gt"
         [] op = "=" -> "eq"]

\* an expression that takes every '-' for the unary one
binary_op_negate(op) ==
    IF op = "*" THEN call("Math.multiply", 2)
    ELSE IF op = "/" THEN call("Math.divide", 2)
    ELSE IF op = "-" THEN arithmetic("neg")
    ELSE arithmetic(_BIN_OP_MAP[op])

\* what _compile_expression writes for 'op term' after the term
binary_op(op) ==
    IF op = "*" THEN call("Math.multiply", 2)
    ELSE IF op = "/" THEN call("Math.divide", 2)
    ELSE arithmetic(_BIN_OP_MAP[op])

\* _compile_expression after a term: write the operator that came before the
\* term, then go on with 'op term' or return
CompileExpression ==
    /\ At("expression")
    /\ LET written == IF Top.s = "" THEN <<>> ELSE <<binary_op(Top.s)>>
           \* history: the operator written, and the operator read
           wrote == IF Top.s = "" THEN <<>>
                    ELSE <<Event("op", Top.g, Top.s, "", "")>>
           before == IF Top.s = "" THEN 0 ELSE Len(log) + 1
       IN IF _is_binary_op(token)
          THEN \/ \E t1 \in Draw(TermStart) :
                 /\ token' = t1
                 /\ out' = out \o written
                 /\ stack' = SetTop([Top EXCEPT !.s = token.text,
                                                !.g = Len(log) + Len(wrote) + 1])
                             \o <<Frame("term")>>
                 /\ log' = log \o wrote
                            \o <<EventAt("operator", before, token.text, "", "",
                                         Len(out) + Len(written))>>
                 /\ UNCHANGED <<apart, status, files, err, err_at, symboltable, branch_count,
                                left>>
               \* advance() after a '/' that ends its line
               \/ /\ line_ends(token)
                  /\ out' = out \o written
                  /\ log' = log \o wrote
                  /\ Escape("IndexError")
          ELSE /\ token' = token
               /\ out' = out \o written
               /\ stack' = Rest
               /\ log' = log \o wrote
               /\ UNCHANGED <<apart, status, files, err, err_at, symboltable, branch_count,
                              left>>

\* after an identifier in a term
IdFollow ==
    (IF left.calls >= 1 THEN {Sym("."), Sym("(")} ELSE {})
    \cup (IF left.terms >= 2 THEN {Sym("[")} ELSE {})
    \cup LeafFollow

\* _compile_term up to the first thing it calls
\* a string constant built with a one-argument appendChar
RECURSIVE append_chars_alone(_)
append_chars_alone(cs) ==
    IF cs = <<>> THEN <<>>
    ELSE <<push("constant", ToString(ord(Head(cs)))),
           call("String.appendChar", 1)>> \o append_chars_alone(Tail(cs))
string_constant_alone(string) ==
    <<push("constant", ToString(Len(chars(string)))), call("String.new", 1)>>
    \o append_chars_alone(chars(string))

\* _compile_term, stringConstant: 'for c in string'
RECURSIVE append_chars(_)
append_chars(cs) ==
    IF cs = <<>> THEN <<>>
    ELSE <<push("constant", ToString(ord(Head(cs)))),
           call("String.appendChar", 2)>> \o append_chars(Tail(cs))
\* _compile_term, stringConstant: what it writes
string_constant(string) ==
    <<push("constant", ToString(Len(chars(string)))), call("String.new", 1)>>
    \o append_chars(chars(string))

CompileTerm ==
    /\ At("term")
    /\ IF token.type = "integerConstant"
       THEN \E t1 \in Draw(LeafFollow) :
         /\ token' = t1
         /\ out' = Append(out, push("constant", token.text))
         /\ stack' = Rest
         /\ left' = [left EXCEPT !.terms = @ - 1]
         /\ UNCHANGED <<apart, status, files, err, err_at, symboltable, branch_count, log>>
       ELSE IF token.type = "stringConstant"
       THEN \E t1 \in Draw(LeafFollow) :
         /\ token' = t1
         /\ out' = out \o string_constant(token.text)
         /\ stack' = Rest
         /\ left' = [left EXCEPT !.terms = @ - 1]
         /\ log' = Append(log, Event("string", 0, "", token.text, ""))
         /\ UNCHANGED <<apart, status, files, err, err_at, symboltable, branch_count>>
       ELSE IF _is_keyword_constant(token)
       THEN \E t1 \in Draw(LeafFollow) :
         /\ token' = t1
         /\ out' = out \o (IF token.text = "true"
                           THEN <<push("constant", "0"), arithmetic("not")>>
                           ELSE IF token.text = "this"
                           THEN <<push("pointer", "0")>>
                           ELSE <<push("constant", "0")>>)
         /\ stack' = Rest
         /\ left' = [left EXCEPT !.terms = @ - 1]
         /\ UNCHANGED <<apart, status, files, err, err_at, symboltable, branch_count, log>>
       ELSE IF token.type = "identifier"
       THEN \E t1 \in Draw(IdFollow) :
         /\ token' = t1
         /\ stack' = SetTop([Frame("subroutine_call") EXCEPT
                               !.s = "term", !.t = token.text])
         /\ left' = [left EXCEPT !.terms = @ - 1]
         /\ UNCHANGED <<apart, status, files, err, err_at, out, symboltable, branch_count, log>>
       ELSE IF token.text = "("
       THEN \E t1 \in Draw(TermStart) :
         /\ token' = t1
         /\ stack' = SetTop([Top EXCEPT !.pc = "term_paren"]) \o Expression
         /\ left' = [left EXCEPT !.terms = @ - 1]
         /\ UNCHANGED <<apart, status, files, err, err_at, out, symboltable, branch_count, log>>
       ELSE IF token.text \in {"-", "~"}
       THEN \E t1 \in Draw(TermStart) :
         /\ token' = t1
         /\ stack' = SetTop([Top EXCEPT !.pc = "term_unary", !.s = token.text])
                     \o <<Frame("term")>>
         /\ left' = [left EXCEPT !.terms = @ - 1]
         /\ UNCHANGED <<apart, status, files, err, err_at, out, symboltable, branch_count, log>>
       \* no branch of _compile_term takes the token: it returns
       ELSE /\ stack' = Rest
            /\ log' = Append(log, Event("hole", 0, "", token.text, ""))
            /\ UNCHANGED <<apart, status, files, err, err_at, token, out, symboltable, branch_count,
                           left>>

\* _compile_term, '(' expression ')': the ')'
CompileTermParenEnd ==
    /\ At("term_paren")
    /\ IF AbsorbError(")", token) # "" THEN Fail(AbsorbError(")", token), token)
       ELSE \E t1 \in Draw(Follow) :
         /\ token' = t1
         /\ stack' = Rest
         /\ UNCHANGED <<apart, status, files, err, err_at, out, symboltable, branch_count, log, left>>

\* _compile_term, unaryOp term: neg or not after the term
CompileTermUnaryEnd ==
    /\ At("term_unary")
    /\ out' = Append(out, arithmetic(IF Top.s = "-" THEN "neg" ELSE "not"))
    /\ stack' = Rest
    /\ UNCHANGED <<apart, status, files, err, err_at, token, symboltable, branch_count, log, left>>

\* _compile_term, an identifier that is no subroutine call: the variable,
\* and the index expression if '[' follows
CompileTermVar ==
    /\ At("term_var")
    /\ LET var == get_var(symboltable, Top.t) IN
       IF var = None THEN FailState("Variable", Id(Top.t), token)
       ELSE IF token.text = "["
       THEN IF var.type # "Array" THEN FailState("Array", Id(Top.t), token)
            ELSE \E t1 \in Draw(TermStart) :
              /\ token' = t1
              /\ out' = Append(out, push(var.kind, ToString(var.index)))
              /\ stack' = SetTop([Top EXCEPT !.pc = "term_index"]) \o Expression
              /\ log' = Append(log, Event("ref", 0, "push", Top.t, ""))
              /\ UNCHANGED <<apart, status, files, err, err_at, symboltable, branch_count, left>>
       ELSE /\ out' = Append(out, push(var.kind, ToString(var.index)))
            /\ stack' = Rest
            /\ log' = Append(log, Event("ref", 0, "push", Top.t, ""))
            /\ UNCHANGED <<apart, status, files, err, err_at, token, symboltable, branch_count, left>>

\* _compile_term, varName '[' expression ']': after the index expression
CompileTermIndexEnd ==
    /\ At("term_index")
    /\ IF AbsorbError("]", token) # "" THEN Fail(AbsorbError("]", token), token)
       ELSE \E t1 \in Draw(Follow) :
         /\ token' = t1
         /\ out' = out \o <<arithmetic("add"), pop("pointer", "1"), push("that", "0")>>
         /\ stack' = Rest
         /\ UNCHANGED <<apart, status, files, err, err_at, symboltable, branch_count, log, left>>

\* --------------------------- subroutine calls --------------------------
\* a call that takes every dotted name for a class name
call_target_name(name, subroutine, var) == Dot(name, subroutine)
\* a call that never counts the receiver
call_n_args_none(var) == 0

\* (className | varName) '.' subroutineName: var is get_var(name)
call_target(name, subroutine, var) ==
    IF var = None THEN Dot(name, subroutine) ELSE Dot(var.type, subroutine)
call_receiver(var) ==
    IF var = None THEN <<>> ELSE <<push(var.kind, ToString(var.index))>>
call_n_args(var) == IF var = None THEN 0 ELSE 1
\* subroutineName alone: a method of the current object
local_target(name) == Dot(ClassName, name)
local_receiver == <<push("pointer", "0")>>
local_n_args == 1

\* _compile_subroutine_call returned False to _compile_do or _compile_term
\* (history: a name with a dot and a second name the caller goes on with)
NoCall(t, written, dotted) ==
    IF Top.s = "do" THEN FailState("Subroutine", Id(Top.t), t)
    ELSE /\ token' = t
         /\ out' = out \o written
         /\ stack' = SetTop([Frame("term_var") EXCEPT !.t = Top.t])
         /\ log' = log \o dotted
         /\ UNCHANGED <<apart, status, files, err, err_at, symboltable, branch_count, left>>

\* _compile_subroutine_call up to the expression list
CompileSubroutineCall ==
    /\ At("subroutine_call")
    /\ IF token.text = "."
       THEN \E t1 \in Draw(SubTokens) :
         IF AbsorbError(":identifier", t1) # ""
         THEN Fail(AbsorbError(":identifier", t1), t1)
         ELSE LET var == get_var(symboltable, Top.t) IN
           \E t2 \in Draw({Sym("(")} \cup (IF left.loose >= 1 THEN {Sym(";")}
                                           ELSE {})) :
             IF t2.text = "("
             THEN \E t3 \in Draw(TermStart \cup {Sym(")")}) :
               /\ token' = t3
               /\ out' = out \o call_receiver(var)
               /\ stack' = SetTop([Frame("expression_list") EXCEPT
                                     !.t = call_target(Top.t, t1.text, var),
                                     !.k = call_n_args(var),
                                     !.g = Len(log) + 1])
               /\ log' = Append(log, Event("call", 0, "dot", Top.t, t1.text))
               /\ left' = [left EXCEPT !.calls = @ - (IF Top.s = "term" THEN 1 ELSE 0)]
               /\ UNCHANGED <<apart, status, files, err, err_at, symboltable, branch_count>>
             ELSE NoCall(t2, call_receiver(var),
                         <<Event("dotted", 0, "", Top.t, t1.text)>>)
       ELSE IF token.text = "("
       THEN \E t3 \in Draw(TermStart \cup {Sym(")")}) :
         /\ token' = t3
         /\ out' = out \o local_receiver
         /\ stack' = SetTop([Frame("expression_list") EXCEPT
                               !.t = local_target(Top.t),
                               !.k = local_n_args,
                               !.g = Len(log) + 1])
         /\ log' = Append(log, Event("call", 0, "local", Top.t, ""))
         /\ left' = [left EXCEPT !.calls = @ - (IF Top.s = "term" THEN 1 ELSE 0)]
         /\ UNCHANGED <<apart, status, files, err, err_at, symboltable, branch_count>>
       ELSE NoCall(token, <<>>, <<>>)

\* _compile_subroutine_call after the expression list of n expressions:
\* ')' and the call command
CallEnd(n) ==
    IF AbsorbError(")", token) # "" THEN Fail(AbsorbError(")", token), token)
    ELSE \E t1 \in Draw(Follow) :
      /\ token' = t1
      /\ out' = Append(out, call(Top.t, Top.k + n))
      /\ stack' = Rest
      /\ log' = Append(log, Event("call_end", Top.g, "", "", ""))
      /\ UNCHANGED <<apart, status, files, err, err_at, symboltable, branch_count, left>>

\* _compile_expression_list: (expression ...)?
CompileExpressionList ==
    /\ At("expression_list")
    /\ IF _is_term(token)
       THEN /\ stack' = SetTop([Top EXCEPT !.pc = "expression_list_more"]) \o Expression
            /\ log' = Append(log, Event("arg", Top.g, "", "", ""))
            /\ UNCHANGED <<apart, status, files, err, err_at, token, out, symboltable, branch_count, left>>
       ELSE CallEnd(0)

\* _compile_expression_list after an expression: (',' expression)*
CompileExpressionListMore ==
    /\ At("expression_list_more")
    /\ IF token.text = ","
       THEN \E t1 \in Draw(TermStart) :
         /\ token' = t1
         /\ stack' = SetTop([Top EXCEPT !.n = @ + 1]) \o Expression
         /\ log' = Append(log, Event("arg", Top.g, "", "", ""))
         /\ UNCHANGED <<apart, status, files, err, err_at, out, symboltable, branch_count, left>>
       ELSE CallEnd(Top.n + 1)

\* ---------------------------- specification ----------------------------
Next ==
    \/ Run
    \/ RunNext
    \/ CompileClass
    \/ CompileClassVarDec
    \/ CompileClassVarDecMore
    \/ CompileClassEnd
    \/ RunEnd
    \/ CompileSubroutine
    \/ CompileParameterList
    \/ CompileParameterListMore
    \/ CompileVarDec
    \/ CompileVarDecMore
    \/ CompileSubroutineBody
    \/ CompileSubroutineEnd
    \/ CompileStatementsEnd
    \/ CompileIf
    \/ CompileIfThen
    \/ CompileIfElse
    \/ CompileIfEnd
    \/ CompileWhile
    \/ CompileWhileBody
    \/ CompileWhileEnd
    \/ CompileReturn
    \/ CompileReturnEnd
    \/ CompileLet
    \/ CompileLetIndexEnd
    \/ CompileLetEnd
    \/ CompileDo
    \/ CompileDoEnd
    \/ CompileExpression
    \/ CompileTerm
    \/ CompileTermParenEnd
    \/ CompileTermUnaryEnd
    \/ CompileTermVar
    \/ CompileTermIndexEnd
    \/ CompileSubroutineCall
    \/ CompileExpressionList
    \/ CompileExpressionListMore

Spec == Init /\ [][Next]_vars

\* ----------------- the symbol table of src/comptools -------------------
\* the table on its own, driven by any caller: every sequence of define and
\* start_subroutine calls
TableTypes == {"int", "Array"}
\* the kinds a caller passes: the four of the table and the two the engine
\* of src/compiler passes for fields and local variables
TableKinds == {"static", "field", "argument", "var", "this", "local"}

comptools_CLASS_VAR == {"static", "field"}
comptools_SUBROUTINE_VAR == {"argument", "var"}

\* SymbolTable.__init__
comptools_SymbolTable ==
    [class_table |-> NoVars,
     subroutine_table |-> NoVars,
     var_count |-> [static |-> 0, field |-> 0, argument |-> 0, var |-> 0]]

\* define raised KeyError
KeyError == [raised |-> "KeyError"]

\* a start_subroutine that starts the whole table again
comptools_start_subroutine_all(tab) == comptools_SymbolTable

comptools_start_subroutine(tab) ==
    [tab EXCEPT !.subroutine_table = NoVars,
                !.var_count = [@ EXCEPT !.argument = 0, !.var = 0]]

comptools_define(tab, name, type_, kind) ==
    IF kind \in comptools_CLASS_VAR
    THEN [tab EXCEPT
            !.class_table =
               (name :> [kind |-> kind, type |-> type_,
                         index |-> tab.var_count[kind]]) @@ @,
            !.var_count = [@ EXCEPT ![kind] = @ + 1]]
    ELSE IF kind \in comptools_SUBROUTINE_VAR
    THEN [tab EXCEPT
            !.subroutine_table =
               (name :> [kind |-> kind, type |-> type_,
                         index |-> tab.var_count[kind]]) @@ @,
            !.var_count = [@ EXCEPT ![kind] = @ + 1]]
    ELSE KeyError

\* a lookup that tries the class first
_get_variable_outer(tab, name) ==
    IF name \in DOMAIN tab.class_table THEN tab.class_table[name]
    ELSE IF name \in DOMAIN tab.subroutine_table THEN tab.subroutine_table[name]
    ELSE None

\* dict.get gives None for a name that is not a key
_get_variable(tab, name) ==
    IF name \in DOMAIN tab.subroutine_table THEN tab.subroutine_table[name]
    ELSE IF name \in DOMAIN tab.class_table THEN tab.class_table[name]
    ELSE None
kind_of(tab, name) == _get_variable(tab, name).kind
type_of(tab, name) == _get_variable(tab, name).type
index_of(tab, name) == _get_variable(tab, name).index

\* history: a call of the table, with the index define gave the name
TableEvent(e, name, type_, kind, index) ==
    [e |-> e, name |-> name, type |-> type_, kind |-> kind, index |-> index]

TableInit ==
    /\ status = "table"
    /\ files = Files(FALSE, FALSE, FALSE)
    /\ err = ""
    /\ err_at = EOF
    /\ token = EOF
    /\ stack = <<>>
    /\ out = <<>>
    /\ symboltable = comptools_SymbolTable
    /\ branch_count = 0
    /\ log = <<>>
    /\ left = Shape(0, 0, 0, 0, 0, 0, 0, 0)
    /\ tokenizer = Parked
    /\ source = Parked
    /\ xmlwriter = Parked

TableDefine ==
    /\ status = "table"
    /\ Len(log) < MaxTableCalls
    /\ \E name \in VarNames, type_ \in TableTypes, kind \in TableKinds :
         LET tab == comptools_define(symboltable, name, type_, kind) IN
         IF tab = KeyError
         THEN /\ status' = "raised"
              /\ err' = "KeyError"
              /\ log' = Append(log, TableEvent("KeyError", name, type_, kind, 0))
              /\ UNCHANGED symboltable
         ELSE /\ symboltable' = tab
              \* history: the index of the entry define has made
              /\ log' = Append(log, TableEvent("define", name, type_, kind,
                            IF kind \in comptools_CLASS_VAR
                            THEN tab.class_table[name].index
                            ELSE tab.subroutine_table[name].index))
              /\ UNCHANGED <<status, err>>
    /\ UNCHANGED <<apart, files, err_at, token, stack, out, branch_count, left>>

TableStartSubroutine ==
    /\ status = "table"
    /\ Len(log) < MaxTableCalls
    /\ symboltable' = comptools_start_subroutine(symboltable)
    /\ log' = Append(log, TableEvent("start_subroutine", "", "", "", 0))
    /\ UNCHANGED <<apart, status, files, err, err_at, token, stack, out, branch_count,
                   left>>

TableNext ==
    \/ TableDefine
    \/ TableStartSubroutine

TableSpec == TableInit /\ [][TableNext]_vars

\* ------------------------- the tokenizer alone --------------------------
\* comptools/_tokenizer.py driven on its own, one advance() at a time, on
\* every source file of at most two lines over a small alphabet: a letter, a
\* digit, a space, a tab, '/', '*', a double quote and a character that is
\* no part of the language.  The file is opened in text mode, so line ends
\* of every sort reach readline() as '\n' and no line holds a carriage
\* return.  A line is the sequence of its characters without the '\n'.
MaxLineLen == 3
MaxLastLen == 1
Alphabet == {"a", "1", " ", "\t", "/", "*", "\"", "#"}
Texts(n) == UNION {[1..k -> Alphabet] : k \in 0..n}
SourceFiles ==
    {<<>>} \cup {<<l>> : l \in Texts(MaxLineLen)}
    \cup {<<l1, l2>> : l1 \in Texts(MaxLineLen), l2 \in Texts(MaxLastLen)}

\* the character sets of the tokenizer, as far as the alphabet goes
_START_WORD_CHARS == {"a"}
_SYMBOLS == {"*", "/"}
_DIGITS == {"1"}
_QUOTE == {"\""}
_WORD_CHARS == _START_WORD_CHARS \cup _DIGITS
_SPACE == {" "}
_SLASH == {"/"}
_ASTERISK == {"*"}
_KEYWORDS ==
    {"class", "constructor", "function", "method", "field", "static",
     "var", "int", "char", "boolean", "void", "true", "false", "null",
     "this", "let", "do", "if", "else", "while", "return"}
\* what str.strip() takes from both ends of a line
Whitespace == {" ", "\t"}

RECURSIVE lstrip(_)
lstrip(line) ==
    IF line # <<>> /\ Head(line) \in Whitespace THEN lstrip(Tail(line)) ELSE line
RECURSIVE rstrip(_)
rstrip(line) ==
    IF line # <<>> /\ line[Len(line)] \in Whitespace
    THEN rstrip(SubSeq(line, 1, Len(line) - 1))
    ELSE line
strip(line) == rstrip(lstrip(line))

\* str.find(sub, start): the lowest index from start on where sub begins,
\* -1 if there is none; indices count from 0 as in the code
find(line, sub, start) ==
    LET hits == {i \in start..(Len(line) - Len(sub)) :
                    SubSeq(line, i + 1, i + Len(sub)) = sub}
    IN IF hits = {} THEN -1 ELSE CHOOSE i \in hits : \A j \in hits : i <= j
\* the slice line[from:to] as a string
RECURSIVE slice(_, _, _)
slice(line, from, to) ==
    IF from >= to \/ from >= Len(line) THEN ""
    ELSE line[from + 1] \o slice(line, from + 1, to)

\* no exception
NotRaised == [err |-> "", info |-> "", line_no |-> 0, line |-> <<>>, error_index |-> 0]
\* the tokenizer after load_class and __enter__; _file is the number of
\* lines read from the file; raised is the exception advance() ended with;
\* comments is history: the block comments closed so far
JackTokenizer ==
    [_file |-> 0, _has_more_tokens |-> TRUE, _token |-> "", _token_type |-> "None",
     _line |-> <<>>, _line_no |-> 0, _char_no |-> 0,
     _start_line |-> <<>>, _start_line_no |-> 0, _start_char_no |-> 0,
     raised |-> NotRaised, comments |-> <<>>]

_go_to_next_line(tk, lines) ==
    IF tk._file < Len(lines)
    THEN [tk EXCEPT !._line_no = @ + 1, !._file = @ + 1, !._char_no = 0,
                    !._line = strip(lines[tk._file + 1])]
    ELSE [tk EXCEPT !._line_no = @ + 1, !._char_no = 0, !._line = <<>>,
                    !._has_more_tokens = FALSE, !._token = "",
                    !._token_type = "None"]

\* a JackError with the tokenizer's current place
_raise_error_current(tk, err_, info) ==
    [tk EXCEPT !.raised = [err |-> err_, info |-> info, line_no |-> tk._line_no,
                           line |-> tk._line, error_index |-> tk._char_no]]
_raise_error(tk, err_, info) ==
    [tk EXCEPT !.raised = [err |-> err_, info |-> info,
                           line_no |-> tk._start_line_no,
                           line |-> tk._start_line,
                           error_index |-> tk._start_char_no]]
\* a Python exception that is no JackError
IndexError(tk) == [tk EXCEPT !.raised = [NotRaised EXCEPT !.err = "IndexError"]]

\* the loop of _build_token: where the run of valid characters ends
RECURSIVE run_end(_, _, _)
run_end(line, char_no, valid_chars) ==
    IF char_no < Len(line) /\ line[char_no + 1] \in valid_chars
    THEN run_end(line, char_no + 1, valid_chars)
    ELSE char_no
_build_token(tk, valid_chars) ==
    LET end == run_end(tk._line, tk._char_no, valid_chars)
    IN [tk EXCEPT !._char_no = end, !._token = slice(tk._line, tk._char_no, end)]

\* the loop of _is_comment that looks for the end of a block comment; the
\* search of the first line starts at _char_no, the '*' of the opener
RECURSIVE multiline_comment(_, _)
multiline_comment(tk, lines) ==
    IF ~tk._has_more_tokens
    THEN _raise_error(tk, "EndOfFile", "unclosed multiline comment")
    ELSE LET end_of_comment == find(tk._line, <<"*", "/">>, tk._char_no)
         IN IF end_of_comment = -1
            THEN multiline_comment(_go_to_next_line(tk, lines), lines)
            ELSE [tk EXCEPT !._char_no = end_of_comment + 2,
                            !.comments = Append(@,
                                [open_line |-> tk._start_line_no,
                                 open |-> tk._start_char_no,
                                 close_line |-> tk._line_no,
                                 close |-> end_of_comment])]

\* the tokenizer after _is_comment and what it returned
_is_comment(tk, lines) ==
    LET at == [tk EXCEPT !._char_no = @ + 1]
    IN IF at._char_no = Len(at._line) THEN [tk |-> at, comment |-> FALSE]
       ELSE LET current == at._line[at._char_no + 1]
            IN IF current \in _SLASH
               THEN [tk |-> _go_to_next_line(at, lines), comment |-> TRUE]
               ELSE IF current \in _ASTERISK
               THEN [tk |-> multiline_comment(at, lines), comment |-> TRUE]
               ELSE [tk |-> at, comment |-> FALSE]

\* the if/elif chain of advance that builds the token from its first
\* character
build(tk, first) ==
    IF first \in _START_WORD_CHARS
    THEN LET built == _build_token(tk, _WORD_CHARS)
         IN [built EXCEPT !._token_type =
                IF built._token \in _KEYWORDS THEN "keyword" ELSE "identifier"]
    ELSE IF first \in _SYMBOLS
    THEN [tk EXCEPT !._token = first, !._token_type = "symbol", !._char_no = @ + 1]
    ELSE IF first \in _DIGITS
    THEN [_build_token(tk, _DIGITS) EXCEPT !._token_type = "integerConstant"]
    ELSE IF first \in _QUOTE
    THEN LET end_of_string == find(tk._line, <<"\"">>, tk._char_no + 1)
         IN IF end_of_string = -1
            THEN _raise_error([tk EXCEPT !._char_no = @ + 1],
                              "EndOfFile", "unclosed string")
            ELSE [tk EXCEPT !._token = slice(tk._line, tk._char_no + 1, end_of_string),
                            !._token_type = "stringConstant",
                            !._char_no = end_of_string + 1]
    ELSE _raise_error(tk, "Syntax", "unidentified character")

RECURSIVE advance(_, _)
advance(tk, lines) ==
    IF ~tk._has_more_tokens THEN tk
    ELSE IF tk._char_no = Len(tk._line)
    THEN advance(_go_to_next_line(tk, lines), lines)
    ELSE IF tk._char_no > Len(tk._line) THEN IndexError(tk)
    ELSE LET first == tk._line[tk._char_no + 1]
         IN IF first \in _SPACE
            THEN advance([tk EXCEPT !._char_no = @ + 1], lines)
            ELSE LET started == [tk EXCEPT !._start_line = tk._line,
                                           !._start_line_no = tk._line_no,
                                           !._start_char_no = tk._char_no]
                     checked == IF first \in _SLASH
                                THEN _is_comment(started, lines)
                                ELSE [tk |-> started, comment |-> FALSE]
                 IN IF checked.tk.raised # NotRaised THEN checked.tk
                    ELSE IF checked.comment THEN advance(checked.tk, lines)
                    ELSE build(checked.tk, first)

\* history: a token advance() produced, with its place and the tokenizer's
\* place after it
Lexed(tk) ==
    [token |-> tk._token, token_type |-> tk._token_type,
     line_no |-> tk._start_line_no, line |-> tk._start_line,
     char_no |-> tk._start_char_no, next_line_no |-> tk._line_no,
     next_char_no |-> tk._char_no]

LexInit ==
    /\ status = "lexing"
    /\ files = Files(TRUE, FALSE, FALSE)
    /\ err = ""
    /\ err_at = EOF
    /\ token = EOF
    /\ stack = <<>>
    /\ out = <<>>
    /\ symboltable = SymbolTable
    /\ branch_count = 0
    /\ log = <<>>
    /\ left = Shape(0, 0, 0, 0, 0, 0, 0, 0)
    /\ tokenizer = JackTokenizer
    /\ source \in SourceFiles
    /\ xmlwriter = Parked

\* one call of advance() by the tokenizer's user, who stops at the end of
\* the file and at an exception
Advance ==
    /\ status = "lexing"
    /\ tokenizer._has_more_tokens
    /\ LET tk == advance(tokenizer, source)
       IN /\ tokenizer' = tk
          /\ status' = IF tk.raised # NotRaised THEN "raised" ELSE status
          /\ err' = tk.raised.err
          /\ log' = IF tk.raised = NotRaised /\ tk._has_more_tokens
                    THEN Append(log, Lexed(tk))
                    ELSE log
    /\ UNCHANGED <<files, err_at, token, stack, out, symboltable, branch_count,
                   left, source, xmlwriter>>

LexNext ==
    \/ Advance

LexSpec == LexInit /\ [][LexNext]_vars

\* -------------------------- the XML writer alone -------------------------
\* The XMLWriter of _writers/_xml.py as the XML engine of engines/xml.py
\* uses it: one writer, made once with the engine, for every file the engine
\* compiles.  The engine's handlers open a block, write terminals and other
\* blocks, and close the block; a JackError leaves run() from inside the
\* handlers, with their blocks open.  stack holds the blocks of the handlers
\* that are running.  A terminal's text and a written text are sequences of
\* characters; an escaped character is one element, "&lt;" and the like.
MaxXmlLines == 3
MaxXmlRuns == 2
\* terminals as the tokenizer gives them: symbols, a name, a string constant
\* with '<' among other text
Terminals ==
    {[type |-> "symbol", text |-> <<"<">>],
     [type |-> "symbol", text |-> <<">">>],
     [type |-> "symbol", text |-> <<"&">>],
     [type |-> "identifier", text |-> <<"a">>],
     [type |-> "stringConstant", text |-> <<"a", "<">>]}
\* the blocks a handler may open inside another
InnerBlocks == {"subroutineDec", "term"}

_INDENT_SPACES == 2
_XML_MAP ==
    [t \in {<<"<">>, <<">">>, <<"'">>, <<"&">>} |->
        IF t = <<"<">> THEN <<"&lt;">>
        ELSE IF t = <<">">> THEN <<"&gt;">>
        ELSE IF t = <<"'">> THEN <<"&quot;">>
        ELSE <<"&amp;">>]
\* _XML_MAP.get(token, token)
escape(text) == IF text \in DOMAIN _XML_MAP THEN _XML_MAP[text] ELSE text

\* the writer as the engine's constructor makes it; _file is the lines of
\* the open output file; runs is history: the files started so far
XMLWriter == [_indent |-> <<>>, _file |-> <<>>, file_name |-> "", runs |-> 0]
\* a line of the file: its indentation and what follows; depth is history:
\* the blocks of this file that were open around the line
Line(indent, kind, tag, text, depth) ==
    [indent |-> indent, kind |-> kind, tag |-> tag, text |-> text, depth |-> depth]

\* write(token_type, token)
xml_write(w, token_type, text, depth) ==
    [w EXCEPT !._file = Append(@, Line(w._indent, "terminal", token_type,
                                       escape(text), depth))]
\* open_block(block)
open_block(w, block, depth) ==
    [w EXCEPT !._file = Append(@, Line(w._indent, "open", block, <<>>, depth)),
              !._indent = @ \o [i \in 1.._INDENT_SPACES |-> " "]]
\* close_block(block)
close_block(w, block, depth) ==
    LET indent == SubSeq(w._indent, 1, Len(w._indent) - _INDENT_SPACES)
    IN [w EXCEPT !._indent = indent,
                 !._file = Append(@, Line(indent, "close", block, <<>>, depth))]
\* load_class and __enter__: the name is set and the file opened for
\* writing, empty
load_class(w, class_name) ==
    [w EXCEPT !.file_name = class_name, !._file = <<>>, !.runs = @ + 1]

XmlInit ==
    /\ status = "init"
    /\ files = Files(FALSE, FALSE, FALSE)
    /\ err = ""
    /\ err_at = EOF
    /\ token = EOF
    /\ stack = <<>>
    /\ out = <<>>
    /\ symboltable = SymbolTable
    /\ branch_count = 0
    /\ log = <<>>
    /\ left = Shape(0, 0, 0, 0, 0, 0, 0, 0)
    /\ tokenizer = Parked
    /\ source = Parked
    /\ xmlwriter = XMLWriter

XmlUnchanged ==
    UNCHANGED <<err, err_at, token, out, symboltable, branch_count, log, left,
                tokenizer, source>>

\* run(class_name) up to its try: a file of the directory is started
XmlRun ==
    /\ status \in {"init", "ok", "error"}
    /\ xmlwriter.runs < MaxXmlRuns
    /\ xmlwriter' = load_class(xmlwriter, ClassName)
    /\ stack' = <<>>
    /\ status' = "running"
    /\ files' = Files(TRUE, TRUE, TRUE)
    /\ XmlUnchanged

\* a handler opens its block: _compile_class the first, others inside it
XmlOpenBlock ==
    /\ status = "running"
    /\ Len(xmlwriter._file) < MaxXmlLines
    /\ \E block \in (IF stack = <<>> THEN {"class"} ELSE InnerBlocks) :
         /\ stack = <<>> => xmlwriter._file = <<>>
         /\ xmlwriter' = open_block(xmlwriter, block, Len(stack))
         /\ stack' = Append(stack, block)
    /\ UNCHANGED <<status, files>>
    /\ XmlUnchanged

\* a handler writes a terminal of its block
XmlWrite ==
    /\ status = "running"
    /\ stack # <<>>
    /\ Len(xmlwriter._file) < MaxXmlLines
    /\ \E t \in Terminals :
         xmlwriter' = xml_write(xmlwriter, t.type, t.text, Len(stack))
    /\ UNCHANGED <<status, files, stack>>
    /\ XmlUnchanged

\* a handler closes its block and returns
XmlCloseBlock ==
    /\ status = "running"
    /\ stack # <<>>
    /\ xmlwriter' = close_block(xmlwriter, stack[Len(stack)], Len(stack) - 1)
    /\ stack' = SubSeq(stack, 1, Len(stack) - 1)
    /\ UNCHANGED <<status, files>>
    /\ XmlUnchanged

\* run returns True: no handler is running; an empty file gives an empty
\* output
XmlSucceed ==
    /\ status = "running"
    /\ stack = <<>>
    /\ status' = "ok"
    /\ files' = Files(FALSE, FALSE, TRUE)
    /\ UNCHANGED <<stack, xmlwriter>>
    /\ XmlUnchanged

\* a JackError leaves the handlers; run closes the files, removes the
\* output and returns False
XmlFail ==
    /\ status = "running"
    /\ status' = "error"
    /\ files' = Files(FALSE, FALSE, FALSE)
    /\ UNCHANGED <<stack, xmlwriter>>
    /\ XmlUnchanged

XmlNext ==
    \/ XmlRun
    \/ XmlOpenBlock
    \/ XmlWrite
    \/ XmlCloseBlock
    \/ XmlSucceed
    \/ XmlFail

XmlSpec == XmlInit /\ [][XmlNext]_vars

\* ------------------------------ properties -----------------------------
\* the history entries of one sort
Events(e) == {i \in 1..Len(log) : log[i].e = e}
\* the subroutine an entry belongs to: the last 'sub' entry up to it, 0 in
\* the class's own declarations
SubOf(i) ==
    LET before == {j \in 1..i : log[j].e = "sub"}
    IN IF before = {} THEN 0 ELSE CHOOSE j \in before : \A k \in before : k <= j
\* the entries of sort e in the subroutine that starts at entry i
InSub(e, i) == {j \in Events(e) : SubOf(j) = i}
\* the lines of out that are function commands
FunctionLines == {n \in 1..Len(out) : out[n][1] = "function"}
\* where the code of the subroutine whose body starts at entry j goes on:
\* the stamp of its first statement, of the next subroutine, or the end
AfterPrologue(j) ==
    LET later == {k \in j+1..Len(log) : log[k].e \in {"stmt", "sub"}}
    IN IF later = {} THEN Len(out)
       ELSE log[CHOOSE k \in later : \A m \in later : k <= m].at

C5_MethodPrologue ==
    \A j \in Events("body") :
      LET at == log[j].at IN
      /\ log[j].kind = "method" =>
           /\ Len(out) >= at + 3
           /\ out[at + 2] = <<"push", "argument", "0">>
           /\ out[at + 3] = <<"pop", "pointer", "0">>
           /\ AfterPrologue(j) = at + 3
      /\ log[j].kind = "function" => AfterPrologue(j) = at + 1
\* a method, and after it a function with a statement
C5_Witness ==
    \E i, j \in Events("body") :
      /\ i < j
      /\ log[i].kind = "method" /\ log[j].kind = "function"
      /\ InSub("stmt", SubOf(j)) # {}

\* ----------------------- variables and calls ---------------------------
Max(S) == CHOOSE x \in S : \A y \in S : y <= x
\* the declaration a name stands for at entry r: the last one of the
\* subroutine r is in, else the last one of the class, 0 if there is none
DeclOf(name, r) ==
    LET inner == {d \in 1..r : /\ log[d].e \in {"param", "local"}
                               /\ log[d].name = name
                               /\ SubOf(d) = SubOf(r)}
        outer == {d \in 1..r : log[d].e = "classvar" /\ log[d].name = name}
    IN IF inner # {} THEN Max(inner) ELSE IF outer # {} THEN Max(outer) ELSE 0
\* the VM segment of the kind of declaration d
SegmentOf(d) ==
    IF log[d].e = "param" THEN "argument"
    ELSE IF log[d].e = "local" THEN "local"
    ELSE IF log[d].kind = "field" THEN "this" ELSE "static"
\* the number of variables of the kind of d declared before d in its scope
IndexOf(d) ==
    IF log[d].e = "classvar"
    THEN Cardinality({c \in Events("classvar") : c < d /\ log[c].kind = log[d].kind})
    ELSE Cardinality({c \in InSub(log[d].e, SubOf(d)) : c < d})
         + (IF log[d].e = "param" /\ log[SubOf(d)].kind = "method" THEN 1 ELSE 0)

\* C6: in a method 'this', of the class type, is argument 0 from the
\* subroutine header on, and the k-th parameter is argument k; in a
\* function or constructor the k-th parameter is argument k-1, whatever
\* the subroutines before it were.
C6_ParameterIndex ==
    LET i == SubOf(Len(log)) IN
    i > 0 =>
      /\ log[i].kind = "method" =>
           get_var(symboltable, "this") =
             [kind |-> "argument", type |-> ClassName, index |-> 0]
      /\ \A p \in InSub("param", i) :
           LET k == Cardinality({c \in InSub("param", i) : c <= p}) IN
           DeclOf(log[p].name, Len(log)) = p =>
             get_var(symboltable, log[p].name) =
               [kind |-> "argument", type |-> log[p].type,
                index |-> IF log[i].kind = "method" THEN k ELSE k - 1]
\* a function with a parameter, after a method with a parameter
C6_Witness ==
    \E i, j \in Events("sub") :
      /\ i < j /\ j = SubOf(Len(log))
      /\ log[i].kind = "method"
      /\ log[j].kind = "function"
      /\ InSub("param", i) # {}
      /\ \E p \in InSub("param", j) : DeclOf(log[p].name, Len(log)) = p

ArgsOf(c) == {g \in Events("arg") : log[g].id = c}
EndOf(c) == {e \in Events("call_end") : log[e].id = c}
\* the call at entry c is a method call
IsMethodCall(c) == log[c].kind = "local" \/ DeclOf(log[c].name, c) > 0
\* the lines of out that call a subroutine named in the source
CallLines ==
    {n \in 1..Len(out) :
       /\ out[n][1] = "call"
       /\ out[n][2] \notin {"Memory.alloc", "Math.multiply", "Math.divide",
                            "String.new", "String.appendChar"}}

\* C2: the count in 'call F n' is the number of expressions between the
\* parentheses, plus one exactly when the call has no dot or the name
\* before the dot is a declared variable.
C2_ArgumentCount ==
    /\ Cardinality(CallLines) = Cardinality(Events("call_end"))
    /\ \A e \in Events("call_end") :
         LET c == log[e].id
             line == out[log[e].at + 1]
         IN /\ line[1] = "call"
            /\ line[3] = ToString(Cardinality(ArgsOf(c))
                                  + (IF IsMethodCall(c) THEN 1 ELSE 0))
\* two finished calls: one on a class, with an argument, and one on the
\* current object
C2_Witness ==
    \E e, f \in Events("call_end") :
      /\ log[log[e].id].kind = "dot" /\ ~IsMethodCall(log[e].id)
      /\ Cardinality(ArgsOf(log[e].id)) = 1
      /\ log[log[f].id].kind = "local"

\* what follows entry c in the history was stamped at this line count
NextStamp(c) == IF c = Len(log) THEN Len(out) ELSE log[c + 1].at

\* C3: 'A.B(...)' with A a variable calls '<type of A>.B' and pushes A
\* first; with A no variable it calls 'A.B' and pushes no receiver;
\* 'A(...)' calls 'Main.A' and pushes pointer 0 first.  The receiver comes
\* before the code of every argument, the call after it.
C3_CallTarget ==
    \A c \in Events("call") :
      LET at == log[c].at
          d == DeclOf(log[c].name, c)
          received == IF IsMethodCall(c) THEN 1 ELSE 0
          target == IF log[c].kind = "local" THEN ClassName \o "." \o log[c].name
                    ELSE IF d > 0 THEN log[d].type \o "." \o log[c].type
                    ELSE log[c].name \o "." \o log[c].type
      IN /\ log[c].kind = "local" => out[at + 1] = <<"push", "pointer", "0">>
         /\ (log[c].kind = "dot" /\ d > 0) =>
              out[at + 1] = <<"push", SegmentOf(d), ToString(IndexOf(d))>>
         /\ NextStamp(c) = at + received
         /\ \A g \in ArgsOf(c) : log[g].at >= at + received
         /\ \A e \in EndOf(c) :
              /\ out[log[e].at + 1][1] = "call"
              /\ out[log[e].at + 1][2] = target
              /\ \A k \in c+1..e : log[k].at >= at + received /\ log[k].at <= log[e].at
\* a finished call on a declared variable with an argument
C3_Witness ==
    \E c \in Events("call") :
      /\ log[c].kind = "dot"
      /\ DeclOf(log[c].name, c) > 0
      /\ ArgsOf(c) # {}
      /\ EndOf(c) # {}

\* ------------------------------ branches -------------------------------
\* the if and while statements, and the value the counter has in statement s
Branches == {s \in Events("stmt") : log[s].kind \in {"if", "while"}}
\* the counter the file started with
FirstBranch == IF log = <<>> THEN branch_count ELSE log[1].id
\* the k of a statement: the counter after it was entered
KOf(s) == FirstBranch + Cardinality({b \in Branches : b <= s})
\* the entries of sort e that belong to statement s
PartOf(e, s) == {i \in Events(e) : log[i].id = s}
LabelLines == {n \in 1..Len(out) : out[n][1] = "label"}
JumpLines == {n \in 1..Len(out) : out[n][1] \in {"goto", "if-goto"}}
\* the function a line is in: its function command
FunctionOf(n) ==
    LET before == {m \in FunctionLines : m <= n}
    IN IF before = {} THEN 0 ELSE Max(before)
\* no if or while statement is unfinished
NoOpenBranch ==
    \A f \in 1..Len(stack) :
      stack[f].pc \notin {"if_condition", "if_then", "if_else",
                          "while_condition", "while_body"}

\* C8: no label is written twice, the counter is the number of if and
\* while statements entered, and once the statements are finished every
\* goto and if-goto has exactly one label of its name, in its own function.
C8_UniqueLabels ==
    /\ \A m, n \in LabelLines : out[m][2] = out[n][2] => m = n
    /\ status # "error" => branch_count = FirstBranch + Cardinality(Branches)
    /\ NoOpenBranch =>
         \A j \in JumpLines :
           Cardinality({l \in LabelLines : /\ out[l][2] = out[j][2]
                                           /\ FunctionOf(l) = FunctionOf(j)}) = 1
\* a finished class of two functions with an if or while statement each
C8_Witness ==
    /\ status = "ok"
    /\ Cardinality(Branches) = 2
    /\ Cardinality(FunctionLines) = 2
    /\ \A f \in FunctionLines : \E n \in JumpLines : FunctionOf(n) = f

\* C9: an if statement writes the condition, 'not', 'if-goto
\* ELSE_BRANCH.k', the then-branch, 'goto END_BRANCH.k', 'label
\* ELSE_BRANCH.k', the else-branch if there is one, 'label END_BRANCH.k';
\* without an else the two labels are next to each other.
C9_IfOrder ==
    \A s \in Branches :
      log[s].kind = "if" =>
        LET k == ToString(KOf(s)) IN
        /\ \A c \in PartOf("if_cond", s) :
             /\ log[c].at > log[s].at
             /\ \A m \in s+1..c-1 : log[m].at >= log[s].at /\ log[m].at <= log[c].at
             /\ out[log[c].at + 1] = <<"not">>
             /\ out[log[c].at + 2] = <<"if-goto", "ELSE_BRANCH." \o k>>
        /\ \A t \in PartOf("if_then", s) :
            /\ \E c \in PartOf("if_cond", s) :
                 /\ c < t
                 /\ \A m \in c+1..t : log[m].at >= log[c].at + 2 /\ log[m].at <= log[t].at
            /\ out[log[t].at + 1] = <<"goto", "END_BRANCH." \o k>>
            /\ out[log[t].at + 2] = <<"label", "ELSE_BRANCH." \o k>>
        /\ \A e \in PartOf("if_end", s) :
            /\ \E t \in PartOf("if_then", s) :
                 /\ t < e
                 /\ \A m \in t+1..e : log[m].at >= log[t].at + 2 /\ log[m].at <= log[e].at
                 /\ PartOf("if_else", s) = {} => log[e].at = log[t].at + 2
            /\ out[log[e].at + 1] = <<"label", "END_BRANCH." \o k>>
        /\ \A x \in {"if_cond", "if_then", "if_else", "if_end"} :
             Cardinality(PartOf(x, s)) <= 1
\* a finished if with an else-branch that holds a statement, and a
\* finished if without an else
C9_Witness ==
    \E s, u \in Branches :
      /\ log[s].kind = "if" /\ log[u].kind = "if"
      /\ PartOf("if_end", s) # {} /\ PartOf("if_end", u) # {}
      /\ PartOf("if_else", u) = {}
      /\ \E l \in PartOf("if_else", s), e \in PartOf("if_end", s) :
           log[e].at > log[l].at

\* C10: a while statement writes 'label LOOP_BRANCH.k', the condition,
\* 'not', 'if-goto BREAK_BRANCH.k', the body, 'goto LOOP_BRANCH.k', 'label
\* BREAK_BRANCH.k', with the k it took on entry whatever its body takes.
C10_WhileOrder ==
    \A s \in Branches :
      log[s].kind = "while" =>
        LET k == ToString(KOf(s)) IN
        /\ out[log[s].at + 1] = <<"label", "LOOP_BRANCH." \o k>>
        /\ \A c \in PartOf("while_cond", s) :
             /\ log[c].at > log[s].at + 1
             /\ \A m \in s+1..c-1 : log[m].at >= log[s].at + 1 /\ log[m].at <= log[c].at
             /\ out[log[c].at + 1] = <<"not">>
             /\ out[log[c].at + 2] = <<"if-goto", "BREAK_BRANCH." \o k>>
        /\ \A e \in PartOf("while_end", s) :
             /\ \E c \in PartOf("while_cond", s) :
                  /\ c < e
                  /\ \A m \in c+1..e : log[m].at >= log[c].at + 2 /\ log[m].at <= log[e].at
             /\ out[log[e].at + 1] = <<"goto", "LOOP_BRANCH." \o k>>
             /\ out[log[e].at + 2] = <<"label", "BREAK_BRANCH." \o k>>
        /\ \A x \in {"while_cond", "while_end"} : Cardinality(PartOf(x, s)) <= 1
\* a finished while whose body holds a finished if or while
C10_Witness ==
    \E s, u \in Branches :
      /\ log[s].kind = "while"
      /\ \E e \in PartOf("while_end", s) :
           /\ s < u /\ u < e
           /\ PartOf("if_end", u) \cup PartOf("while_end", u) # {}

\* ------------------------------ let ------------------------------------
Lets == {s \in Events("stmt") : log[s].kind = "let"}
\* the entries m..n were stamped between line counts lo and hi
Within(m, n, lo, hi) == \A k \in m..n : log[k].at >= lo /\ log[k].at <= hi

\* C11: 'let a[e1] = e2;' writes the push of a, the code of e1, 'add', the
\* code of e2, then 'pop temp 0', 'pop pointer 1', 'push temp 0', 'pop
\* that 0'; 'let v = e;' writes the code of e, then the pop of v.
C11_LetOrder ==
    \A s \in Lets :
      LET d == DeclOf(log[s].name, s)
          var == <<SegmentOf(d), ToString(IndexOf(d))>>
      IN
      /\ d > 0
      /\ log[s].type = "array" =>
           /\ out[log[s].at + 1] = <<"push">> \o var
           /\ \A i \in PartOf("let_index", s) :
                /\ log[i].at > log[s].at + 1
                /\ Within(s + 1, i, log[s].at, log[i].at)
                /\ out[log[i].at + 1] = <<"add">>
           /\ \A e \in PartOf("let_end", s) :
                /\ \E i \in PartOf("let_index", s) :
                     /\ i < e
                     /\ log[e].at > log[i].at + 1
                     /\ Within(i + 1, e, log[i].at + 1, log[e].at)
                /\ out[log[e].at + 1] = <<"pop", "temp", "0">>
                /\ out[log[e].at + 2] = <<"pop", "pointer", "1">>
                /\ out[log[e].at + 3] = <<"push", "temp", "0">>
                /\ out[log[e].at + 4] = <<"pop", "that", "0">>
           /\ Cardinality(PartOf("let_index", s)) <= 1
           /\ Cardinality(PartOf("let_end", s)) <= 1
      /\ log[s].type # "array" =>
           /\ PartOf("let_index", s) \cup PartOf("let_end", s) = {}
           /\ \A r \in PartOf("ref", s) :
                \* the code of e, unless the source has no e
                /\ \/ log[r].at > log[s].at
                   \/ \E h \in Events("hole") : s < h /\ h < r
                /\ Within(s + 1, r, log[s].at, log[r].at)
                /\ out[log[r].at + 1] = <<"pop">> \o var
           /\ Cardinality(PartOf("ref", s)) <= 1
\* a finished store to an array element
C11_Witness ==
    \E s \in Lets : log[s].type = "array" /\ PartOf("let_end", s) # {}

\* ---------------------------- expressions ------------------------------
\* the instruction of a binary operator
InstructionOf(op) ==
    CASE op = "+" -> <<"add">>
      [] op = "-" -> <<"sub">>
      [] op = "&" -> <<"and">>
      [] op = "|" -> <<"or">>
      [] op = "<" -> <<"lt">>
      [] op = ">" -> <<"gt">>
      [] op = "=" -> <<"eq">>
      [] op = "*" -> <<"call", "Math.multiply", "2">>
      [] op = "/" -> <<"call", "Math.divide", "2">>

\* C12: in 't1 o1 t2 o2 t3 ...' the instruction of each operator is written
\* right after the code of the term that follows it and before anything of
\* the next operator's term, whatever the operators are: '*' is 'call
\* Math.multiply 2', '/' is 'call Math.divide 2', '+ - & | < > =' are 'add
\* sub and or lt gt eq'.
C12_LeftToRight ==
    /\ \A w \in Events("op") :
         LET r == log[w].id IN
         /\ r > 0 /\ r < w
         /\ log[r].e = "operator"
         /\ log[r].kind = log[w].kind
         /\ log[w].at > log[r].at
         /\ Within(r + 1, w, log[r].at, log[w].at)
         /\ out[log[w].at + 1] = InstructionOf(log[w].kind)
         /\ \A v \in Events("op") : log[v].id = r => v = w
    /\ \A r \in Events("operator") :
         LET p == log[r].id IN
         p > 0 => /\ p = r - 1
                  /\ log[p].e = "op"
                  /\ log[r].at = log[p].at + 1
\* '7 + 7 * 7' compiled: the sum first, then the product
C12_Witness ==
    /\ Len(out) >= 5
    /\ SubSeq(out, Len(out) - 4, Len(out)) =
         <<<<"push", "constant", "7">>, <<"push", "constant", "7">>, <<"add">>,
           <<"push", "constant", "7">>, <<"call", "Math.multiply", "2">>>>

\* -------------------------- string constants ---------------------------
\* the lines of out that call F
CallsTo(F) == {n \in 1..Len(out) : out[n][1] = "call" /\ out[n][2] = F}
\* the string constants compiled whose text is x
StringsOf(x) == {e \in Events("string") : log[e].name = x}

\* C13: a string constant of length n writes 'push constant n', 'call
\* String.new 1' and then, for each character in order, 'push constant
\* ord(c)', 'call String.appendChar 2'; the empty string writes the first two
\* lines only, and appendChar is never called with another count.
C13_StringConstant ==
    /\ \A e \in Events("string") :
         LET a == log[e].at
             lines == CASE log[e].name = "" ->
                             <<<<"push", "constant", "0">>,
                               <<"call", "String.new", "1">>>>
                        [] log[e].name = "A" ->
                             <<<<"push", "constant", "1">>,
                               <<"call", "String.new", "1">>,
                               <<"push", "constant", "65">>,
                               <<"call", "String.appendChar", "2">>>>
                        [] log[e].name = "AB" ->
                             <<<<"push", "constant", "2">>,
                               <<"call", "String.new", "1">>,
                               <<"push", "constant", "65">>,
                               <<"call", "String.appendChar", "2">>,
                               <<"push", "constant", "66">>,
                               <<"call", "String.appendChar", "2">>>>
         IN /\ Len(out) >= a + Len(lines)
            /\ SubSeq(out, a + 1, a + Len(lines)) = lines
            /\ \A f \in Events("string") :
                 f > e => log[f].at >= a + Len(lines)
    /\ \A n \in CallsTo("String.appendChar") : out[n][3] = "2"
    /\ Cardinality(CallsTo("String.new")) = Cardinality(Events("string"))
    /\ Cardinality(CallsTo("String.appendChar")) =
         Cardinality(StringsOf("A")) + 2 * Cardinality(StringsOf("AB"))
\* an empty string and a two-character string compiled
C13_Witness ==
    /\ StringsOf("") # {}
    /\ StringsOf("AB") # {}

\* --------------------------- several files -----------------------------
\* C14: the output of a file does not depend on the files the engine
\* compiled before it: every file starts with the branch counter at 0, so
\* the labels of its n-th if or while statement end in n.
C14_FreshPerFile ==
    /\ status = "init" => branch_count = 0
    /\ \A s \in Branches :
         LET n == ToString(Cardinality({b \in Branches : b <= s})) IN
         /\ log[s].kind = "while" =>
              out[log[s].at + 1] = <<"label", "LOOP_BRANCH." \o n>>
         /\ log[s].kind = "if" =>
              \A c \in PartOf("if_cond", s) :
                out[log[c].at + 2] = <<"if-goto", "ELSE_BRANCH." \o n>>

\* ------------------------------ the files ------------------------------
\* C15: when the compilation of a file has stopped on an error of any sort,
\* there is no output file, and when run is over both files are closed.
C15_NoOutputOnError ==
    /\ status \in {"error", "crashed"} => ~files.output
    /\ status \in {"ok", "error", "crashed"} => ~files.reader /\ ~files.writer

\* --------------------------- error positions ---------------------------
\* C16: a Variable error for a name that neither scope declares reports the
\* place of that name: for a variable term, where the engine is already at
\* the token after the name, the name it saved; for the target of a let,
\* the token after 'let'.
C16_VariableErrorPlace ==
    [][(status = "running" /\ status' = "error" /\ err' = "Variable") =>
         \/ /\ At("term_var")
            /\ get_var(symboltable, Top.t) = None
            /\ err_at' = [type |-> "identifier", text |-> Top.t]
            /\ token' = token
         \/ /\ At("statements")
            /\ token.text = "let"
            /\ get_var(symboltable, err_at'.text) = None
            /\ token' = err_at']_vars
\* a Variable error for a name in an expression, raised when the engine was
\* at the token after it
C16_Witness ==
    /\ status = "error"
    /\ err = "Variable"
    /\ err_at.type = "identifier"
    /\ token # err_at

\* ---------------------- the table of src/comptools ---------------------
\* the last start_subroutine call, 0 if there was none
LastStart == Max({0} \cup Events("start_subroutine"))
\* the define calls that put name into the subroutine table as it is now,
\* and into the class table
SubroutineDefines(name) ==
    {i \in Events("define") : /\ i > LastStart
                              /\ log[i].name = name
                              /\ log[i].kind \in {"argument", "var"}}
ClassDefines(name) ==
    {i \in Events("define") : /\ log[i].name = name
                              /\ log[i].kind \in {"static", "field"}}

\* C17: a lookup gives what the last define of the name in the current
\* subroutine gave it, else what the last define of the name in the class
\* gave it, else nothing; start_subroutine ends the shadowing.
C17_Lookup ==
    \A name \in VarNames :
      LET v == _get_variable(symboltable, name)
          d == IF SubroutineDefines(name) # {}
               THEN Max(SubroutineDefines(name))
               ELSE IF ClassDefines(name) # {} THEN Max(ClassDefines(name))
               ELSE 0
      IN IF d = 0 THEN v = [kind |-> "none", type |-> "", index |-> 0]
         ELSE v = [kind |-> log[d].kind, type |-> log[d].type,
                   index |-> log[d].index]
\* a name of the class that a subroutine shadowed is back after
\* start_subroutine
C17_Witness ==
    \E name \in VarNames :
      /\ ClassDefines(name) # {}
      /\ SubroutineDefines(name) = {}
      /\ \E i \in Events("define") :
           /\ log[i].name = name
           /\ log[i].kind \in {"argument", "var"}
           /\ i > Max(ClassDefines(name))
           /\ i < LastStart
      /\ _get_variable(symboltable, name).kind \in {"static", "field"}

\* C18: start_subroutine empties the subroutine table and sets the counters
\* of arguments and local variables to 0; the class table and the counters
\* of statics and fields stay, so the index of a static or field is the
\* number of those defined before it in the whole class.
C18_StartSubroutine ==
    /\ [](\A i \in Events("define") :
            log[i].kind \in {"static", "field"} =>
              log[i].index = Cardinality({j \in Events("define") :
                                            j < i /\ log[j].kind = log[i].kind}))
    /\ [][(Len(log') = Len(log) + 1 /\ log'[Len(log')].e = "start_subroutine") =>
            /\ symboltable'.subroutine_table = NoVars
            /\ symboltable'.var_count.argument = 0
            /\ symboltable'.var_count.var = 0
            /\ symboltable'.class_table = symboltable.class_table
            /\ symboltable'.var_count.static = symboltable.var_count.static
            /\ symboltable'.var_count.field = symboltable.var_count.field]_vars
\* a static defined before a subroutine and one defined after it
C18_Witness ==
    \E i, j \in Events("define") :
      /\ i < LastStart
      /\ LastStart < j
      /\ log[i].kind = "static"
      /\ log[j].kind = "static"
      /\ log[j].index = 1
      /\ symboltable.var_count.static = 2

\* C19: the counter of a kind is the number of entries of the kind in its
\* table, and their indices are 0, 1, ... without gaps or duplicates, also
\* when a name is defined more than once.
C19_DenseIndices ==
    \A kind \in {"static", "field", "argument", "var"} :
      LET tab == IF kind \in {"static", "field"} THEN symboltable.class_table
                 ELSE symboltable.subroutine_table
          entries == {n \in DOMAIN tab : tab[n].kind = kind}
      IN /\ symboltable.var_count[kind] = Cardinality(entries)
         /\ {tab[n].index : n \in entries} = 0..(symboltable.var_count[kind] - 1)

\* C20: the table accepts the kinds the engine passes, 'static', 'this',
\* 'argument' and 'local': define puts the name into the class table or the
\* subroutine table with the counter of its kind as index; only another
\* kind is an error.
C20_EngineKinds ==
    \A i \in Events("KeyError") :
      log[i].kind \notin {"static", "this", "argument", "local"}

\* ------------------------- sources that end early ----------------------
\* C25: when the input ends inside the class, the run fails with an
\* end-of-file error, whatever the engine was reading.
C25_EndOfFile ==
    (status = "error" /\ token.type = "EOF") => err = "EndOfFile"

\* C26: when the '}' of the class has been read, a token that follows it
\* makes the run fail with the syntax error for code outside the class,
\* reported at that token; with no token left the run succeeds.
C26_CodeOutsideClass ==
    [][(status = "running" /\ stack = <<>>) =>
         IF token.type # "EOF"
         THEN status' = "error" /\ err' = "Syntax" /\ err_at' = token
         ELSE status' = "ok" /\ err' = "" /\ out' = out]_vars
\* a class followed by another 'class'
C26_Witness ==
    /\ status = "error"
    /\ err = "Syntax"
    /\ token = [type |-> "keyword", text |-> "class"]
    /\ err_at = token

\* ------------------------- terms that are missing ----------------------
\* C27: where a term is due and the token cannot start one, the source is
\* rejected: nothing more is written for it and the run does not succeed.
C27_TermRequired ==
    \A h \in Events("hole") :
      log[h].name # "" =>
        /\ status # "ok"
        /\ Len(out) = log[h].at

\* C28: a name, a dot and a second name without '(' after them are rejected:
\* no output is finished for a source that has them.
C28_DottedName ==
    status = "ok" => Events("dotted") = {}

\* ------------------------------ the tokenizer ---------------------------
\* the tokens of a whole file, each with its type: what advance() gives
\* when it is called until the file ends, an exception being the last entry
RECURSIVE scan(_, _)
scan(tk, lines) ==
    IF ~tk._has_more_tokens THEN <<>>
    ELSE LET next == advance(tk, lines)
         IN IF next.raised # NotRaised
            THEN <<[token |-> next.raised.err, token_type |-> "raised"]>>
            ELSE IF ~next._has_more_tokens THEN <<>>
            ELSE <<[token |-> next._token, token_type |-> next._token_type]>>
                 \o scan(next, lines)
\* the file has been read to its end or to an exception
Done == status = "raised" \/ ~tokenizer._has_more_tokens
\* the tokens that advance() has given so far, and the exception
Outcome ==
    [i \in 1..Len(log) |-> [token |-> log[i].token, token_type |-> log[i].token_type]]
    \o (IF status = "raised" THEN <<[token |-> err, token_type |-> "raised"]>> ELSE <<>>)
\* a file with a space for every tab
spaced(lines) ==
    [l \in 1..Len(lines) |->
        [i \in 1..Len(lines[l]) |-> IF lines[l][i] = "\t" THEN " " ELSE lines[l][i]]]
\* a file without string constants: its tabs stand between tokens or in
\* comments
NoQuote(lines) == \A l \in 1..Len(lines) : \A i \in 1..Len(lines[l]) : lines[l][i] # "\""

\* C21: a tab between two tokens is skipped like a space: it is never the
\* character of an 'unidentified character' error, and a file without string
\* constants gives the same tokens as the file with a space for every tab.
C21_Whitespace ==
    /\ (status = "raised" /\ err = "Syntax") =>
          tokenizer.raised.line[tokenizer.raised.error_index + 1] # "\t"
    /\ (Done /\ NoQuote(source)) => Outcome = scan(JackTokenizer, spaced(source))

\* the characters a token takes in its line: its text, and the two quotes of
\* a string constant
width(t) == Len(t.token) + (IF t.token_type = "stringConstant" THEN 2 ELSE 0)
\* the characters that continue a token of a type
Continues(token_type) ==
    IF token_type \in {"keyword", "identifier"} THEN _WORD_CHARS
    ELSE IF token_type = "integerConstant" THEN _DIGITS
    ELSE {}

\* C22: no character is skipped or read twice: a token's text is what its
\* line holds from its first character on, the tokenizer then stands at the
\* character right after the token, a '/' included, and a name or a number
\* is not followed by a character that would continue it.
C22_Lexemes ==
    \A i \in 1..Len(log) :
      LET t == log[i]
          quote == IF t.token_type = "stringConstant" THEN 1 ELSE 0
      IN /\ slice(t.line, t.char_no + quote, t.char_no + quote + Len(t.token)) = t.token
         /\ t.next_line_no = t.line_no
         /\ t.next_char_no = t.char_no + width(t)
         /\ t.next_char_no < Len(t.line) =>
               t.line[t.next_char_no + 1] \notin Continues(t.token_type)

\* the characters that start a token or are skipped
Recognized == _START_WORD_CHARS \cup _SYMBOLS \cup _DIGITS \cup _QUOTE \cup _SPACE
\* a line of the file as the error message shows it
Shown(l) == strip(source[l])
\* no '*/' ends a block comment whose '/*' is at index i of line l
Unclosed(l, i) ==
    /\ find(Shown(l), <<"*", "/">>, i + 2) = -1
    /\ \A m \in (l + 1)..Len(source) : find(Shown(m), <<"*", "/">>, 0) = -1

\* C23: a lexical error is reported where the offending construct starts,
\* which is where the tokenizer met its first character: in the line of that
\* number, an unclosed string at its opening quote, after which the line
\* has no quote; an unclosed block comment at its '/*', after which the file
\* has no '*/', however many lines were read since; an unrecognized
\* character at that character.
C23_ErrorPosition ==
    (status = "raised" /\ err \in {"EndOfFile", "Syntax"}) =>
      LET e == tokenizer.raised
      IN /\ e.line_no \in 1..Len(source)
         /\ e.line = Shown(e.line_no)
         /\ e.error_index < Len(e.line)
         /\ e.line_no = tokenizer._start_line_no
         /\ e.error_index = tokenizer._start_char_no
         /\ e.info = "unclosed string" =>
               /\ e.line[e.error_index + 1] = "\""
               /\ find(e.line, <<"\"">>, e.error_index + 1) = -1
         /\ e.info = "unclosed multiline comment" =>
               /\ SubSeq(e.line, e.error_index + 1, e.error_index + 2) = <<"/", "*">>
               /\ Unclosed(e.line_no, e.error_index)
         /\ e.info = "unidentified character" =>
               e.line[e.error_index + 1] \notin Recognized
         /\ e.info \in {"unclosed string", "unclosed multiline comment",
                        "unidentified character"}
\* a block comment that starts after a token of the first line and is still
\* open when the second line has been read
C23_Witness ==
    /\ status = "raised"
    /\ tokenizer.raised.info = "unclosed multiline comment"
    /\ tokenizer.raised.line_no = 1
    /\ tokenizer.raised.error_index = 1
    /\ tokenizer._file = 2
    /\ tokenizer._line_no = 3
\* a string without its closing quote, after a space
C23_WitnessString ==
    /\ status = "raised"
    /\ tokenizer.raised.info = "unclosed string"
    /\ tokenizer.raised.error_index = 1

\* C30: the '*/' that closes a block comment comes after the two characters
\* of its '/*': a comment the tokenizer has taken as closed has a '*/' after
\* its opener, and on the opener's line that '*/' starts at least two
\* characters after the '/'.
C30_CommentClose ==
    \A i \in 1..Len(tokenizer.comments) :
      LET c == tokenizer.comments[i]
      IN /\ ~Unclosed(c.open_line, c.open)
         /\ c.close_line = c.open_line => c.close >= c.open + 2

\* ------------------------------ the XML writer --------------------------
\* the lines of a sort in the output file
XmlLines(kind) == {i \in 1..Len(xmlwriter._file) : xmlwriter._file[i].kind = kind}

\* C24: no terminal is written with a raw '<', '>', '&' or '"' in its text,
\* whatever its kind and whatever else the text holds.
C24_Escaped ==
    \A i \in XmlLines("terminal") :
      \A c \in 1..Len(xmlwriter._file[i].text) :
        xmlwriter._file[i].text[c] \notin {"<", ">", "&", "\""}

\* C29: every line of the file is indented by two spaces for each block of
\* this file that is open around it, and the indentation is empty when a
\* file is started and when it has been compiled, whatever happened to the
\* files before it.
C29_Indent ==
    /\ \A i \in 1..Len(xmlwriter._file) :
         Len(xmlwriter._file[i].indent) = _INDENT_SPACES * xmlwriter._file[i].depth
    /\ (status = "running" /\ xmlwriter._file = <<>>) => xmlwriter._indent = <<>>
    /\ status = "ok" => xmlwriter._indent = <<>>

====
